---- MODULE Spec2Model ----
(***************************************************************************)
(* A model of the pairwise ranking tool: the batch binary-insertion sorter *)
(* (components/BatchSorting.tsx, utils/pairwiseComparison.ts), the list    *)
(* view that owns the committed sequence (components/MediaList.tsx), the   *)
(* rating distribution (utils/bellCurve.ts) and the rating screen          *)
(* (components/BellCurveRating.tsx).                                       *)
(*                                                                         *)
(* Spec is the application, SpecSort one batch sort over any sorted list,  *)
(* SpecBell one call of applyBellCurve over any arguments.                 *)
(*                                                                         *)
(* Arrays are TLA+ sequences: the code's 0-based index i is element i+1.   *)
(* low, high and comparisonIndex keep the code's 0-based values.           *)
(* Real numbers are fixed-point integers in units of 1/Scale.              *)
(***************************************************************************)
EXTENDS Integers, Sequences, FiniteSets, TLC

(***************************************************************************)
(* Bounds of the model.                                                    *)
(***************************************************************************)
\* ids of the catalogue items the user can pick from
MaxId == 4
\* longest list handed to a batch sort as existingSortedItems
MaxExisting == 4
\* longest mediaItems of a batch sorted from scratch
MaxBatch == 4
\* longest mediaItems of a batch added to a non-empty list
MaxNew == 2
\* ids of the catalogue items offered on the selection screen of a list
MaxPickId == 3

(***************************************************************************)
(* types/media.ts                                                          *)
(***************************************************************************)
\* the catalogue: MaxId movies, and one show that shares its id with a movie
\* (identity is the pair (id, type))
Media == [id : 1..MaxId, type : {"movie"}] \cup {[id |-> 1, type |-> "tv"]}

\* currentItem === null
NullMedia == [id |-> 0, type |-> "null"]

\* comparisonIndex === null
NullIndex == -1

\* rating === undefined
NoRating == -1

\* draggedItem === null
NullItem == [id |-> 0, type |-> "null", rank |-> 0, rating |-> NoRating]

\* what the search of the selection screen offers
Catalogue == {m \in Media : m.id <= MaxPickId}

\* a Media object as a RankedMedia
Ranked(media, rank) ==
    [id |-> media.id, type |-> media.type, rank |-> rank, rating |-> NoRating]

\* the Media part of a RankedMedia
Identity(item) == [id |-> item.id, type |-> item.type]

Range(s) == {s[i] : i \in 1..Len(s)}

Identities(s) == {Identity(s[i]) : i \in 1..Len(s)}

(***************************************************************************)
(* The user: one fixed strict total preference order over the catalogue.   *)
(* A larger key is a more preferred item.                                  *)
(***************************************************************************)
OracleKey(m) == IF m.type = "tv" THEN 2 * m.id + 1 ELSE 2 * m.id

Prefers(a, b) == OracleKey(a) > OracleKey(b)

VARIABLES
    \* MediaList.tsx
    currentScreen,        \* "list" | "rate" | "batch-select" | "batch-sort"
    listSortedItems,      \* MediaList's sortedItems (= list.items by rank)
    \* BatchSorting.tsx props
    mediaItems,
    existingSortedItems,
    \* BatchSorting.tsx state
    currentStage,
    sortedItems,
    remainingItems,
    currentItem,
    low,
    high,
    comparisonIndex,
    sortedCount,
    comparisonCount,
    \* observers of the user's answers
    consistent,           \* every answer so far agreed with the oracle
    itemComparisons,      \* answers accepted for the current candidate
    \* BatchSorting.tsx with the animated cards: its further state
    selectedCardType,     \* "new" | "existing" | "null"
    isAnimating,
    timers,               \* the setTimeout callbacks not yet run, oldest first
    answersAccepted,      \* observer: clicks that passed the handler's guard
    lastClick,            \* observer: how the last click on a card ended
    \* one call of applyBellCurve (utils/bellCurve.ts)
    bcItems,              \* the arguments
    bcMean,
    bcStdDev,
    bcMinRating,
    bcMaxRating,
    bcCalls,              \* the number of calls made with these arguments
    bcReturned,           \* the call has returned
    bcThrew,              \* the call ended by throwing
    bcResult,             \* the array returned
    \* MediaList.tsx drag and drop
    draggedItem,
    lastChange,           \* observer: the last commit to the list
    listConsistent,       \* observer: the order of the list is the one that
                          \* answers agreeing with the oracle gave it
    \* BellCurveRating.tsx state
    rateMean,             \* mean
    rateStdDev,           \* stdDev
    rateItems,            \* items
    rateInitialized,      \* the initialization effect ran for these dependencies
    draggedItemKey,
    dragStartX,
    visibleMinRating,
    visibleMaxRating,
    isZoomed,
    draggingPoint,
    dragOffsetX,
    draggingAdjuster,
    adjusterOffsetX,
    originalAdjusterRating,
    \* the pointer and observers of the rating screen
    pointerOver,          \* the part of the page under the pointer
    dragMoves,            \* moves of a drag that set the items
    eventsUsed,           \* kinds of event handled since the ratings were set
    lastEvent             \* the last handler that ran, and how it ended

animVars == <<selectedCardType, isAnimating, timers, answersAccepted, lastClick>>

sortVars == <<mediaItems, existingSortedItems, currentStage, sortedItems,
              remainingItems, currentItem, low, high, comparisonIndex,
              sortedCount, comparisonCount, consistent, itemComparisons,
              animVars>>

listVars == <<currentScreen, listSortedItems, draggedItem, lastChange,
              listConsistent>>

cardVars == <<draggedItemKey, dragStartX>>

viewVars == <<visibleMinRating, visibleMaxRating, isZoomed>>

curveVars == <<draggingPoint, dragOffsetX, draggingAdjuster, adjusterOffsetX,
               originalAdjusterRating, dragMoves>>

rateVars == <<rateMean, rateStdDev, rateItems, rateInitialized, cardVars,
              viewVars, curveVars, pointerOver, eventsUsed, lastEvent>>

bellVars == <<bcItems, bcMean, bcStdDev, bcMinRating, bcMaxRating, bcCalls,
              bcReturned, bcThrew, bcResult>>

vars == <<listVars, sortVars, bellVars, rateVars>>

(***************************************************************************)
(* utils/pairwiseComparison.ts                                             *)
(***************************************************************************)
\* a linear scan: the pivot is the low end of the window
getNextComparisonIndex_Linear(sortedList, lo, hi) == lo

getNextComparisonIndex(sortedList, lo, hi) == (lo + hi) \div 2

\* the rank is the index itself
updateRankingsAfterInsertion_ByIndex(items) ==
    [i \in 1..Len(items) |-> [items[i] EXCEPT !.rank = i - 1]]

\* every item built anew from its identity and rank: the spread of the
\* item's other fields left out
updateRankingsAfterInsertion_WithoutSpread(items) ==
    [i \in 1..Len(items) |-> Ranked(Identity(items[i]), Len(items) - 1 - (i - 1))]

updateRankingsAfterInsertion(items) ==
    [i \in 1..Len(items) |-> [items[i] EXCEPT !.rank = Len(items) - 1 - (i - 1)]]

\* the new item goes one place too far: slice(0, insertPosition + 1)
insertMediaItem_OnePastPosition(sortedList, newItem, insertPosition) ==
    LET cut == IF insertPosition + 1 > Len(sortedList) THEN Len(sortedList)
               ELSE insertPosition + 1
    IN  updateRankingsAfterInsertion(
            SubSeq(sortedList, 1, cut)
            \o <<[newItem EXCEPT !.rank = insertPosition]>>
            \o SubSeq(sortedList, cut + 1, Len(sortedList)))

insertMediaItem(sortedList, newItem, insertPosition) ==
    updateRankingsAfterInsertion(
        SubSeq(sortedList, 1, insertPosition)
        \o <<[newItem EXCEPT !.rank = insertPosition]>>
        \o SubSeq(sortedList, insertPosition + 1, Len(sortedList)))

(***************************************************************************)
(* components/BatchSorting.tsx                                             *)
(***************************************************************************)
\* the identity check that forgets the type
isMediaDuplicate_IdOnly(media, list) ==
    \E i \in 1..Len(list) : list[i].id = media.id

isMediaDuplicate(media, list) ==
    \E i \in 1..Len(list) : list[i].id = media.id /\ list[i].type = media.type

\* newItems.forEach(media => { if (!isMediaDuplicate(media, unique)) unique.push(media) })
RECURSIVE PushUnique(_, _)
PushUnique(items, unique) ==
    IF items = <<>> THEN unique
    ELSE PushUnique(Tail(items),
                    IF isMediaDuplicate(Head(items), unique) THEN unique
                    ELSE Append(unique, Head(items)))

\* the filter against the existing list left out
FilterNotIn_KeepsAll(items, list) == items

\* mediaItems.filter(media => !isMediaDuplicate(media, existingSortedItems))
FilterNotIn(items, list) ==
    SelectSeq(items, LAMBDA media : ~isMediaDuplicate(media, list))

\* mediaItems.slice(1) without the items equal to firstItem
FilterNotFirst(items, firstItem) ==
    SelectSeq(items, LAMBDA media :
        media.id # firstItem.id \/ media.type # firstItem.type)

\* the initialization effect
InitializationEffect ==
    /\ currentScreen = "batch-sort"
    /\ currentStage = "initial"
    /\ IF Len(existingSortedItems) > 0
       THEN /\ sortedItems' = existingSortedItems
            /\ remainingItems' =
                   PushUnique(FilterNotIn(mediaItems, existingSortedItems), <<>>)
            /\ sortedCount' = 0
       ELSE IF Len(mediaItems) > 0
       THEN /\ sortedItems' = <<Ranked(mediaItems[1], 0)>>
            /\ sortedCount' = 1
            /\ remainingItems' =
                   PushUnique(FilterNotFirst(Tail(mediaItems), mediaItems[1]), <<>>)
       ELSE UNCHANGED <<sortedItems, sortedCount, remainingItems>>
    /\ currentStage' = "sorting"
    /\ UNCHANGED <<mediaItems, existingSortedItems, currentItem, low, high,
                   comparisonIndex, comparisonCount, consistent, itemComparisons>>
    /\ UNCHANGED <<listVars, bellVars, rateVars, animVars>>

\* the effect that picks the next candidate or completes the sort
PickNextEffect ==
    /\ currentScreen = "batch-sort"
    /\ currentStage = "sorting"
    /\ currentItem = NullMedia
    /\ IF Len(remainingItems) > 0
       THEN /\ currentItem' = remainingItems[1]
            /\ remainingItems' = Tail(remainingItems)
            /\ low' = 0
            /\ high' = Len(sortedItems)
            /\ comparisonIndex' = NullIndex
            /\ itemComparisons' = 0
            /\ UNCHANGED currentStage
       ELSE /\ currentStage' = "complete"
            /\ UNCHANGED <<currentItem, remainingItems, low, high,
                           comparisonIndex, itemComparisons>>
    /\ UNCHANGED <<mediaItems, existingSortedItems, sortedItems, sortedCount,
                   comparisonCount, consistent>>
    /\ UNCHANGED <<listVars, bellVars, rateVars, animVars>>

\* the comparison effect has work to do: the window closed, or the pivot is stale
ComparisonEffectPending ==
    /\ currentStage = "sorting"
    /\ currentItem # NullMedia
    /\ \/ low >= high
       \/ comparisonIndex # getNextComparisonIndex(sortedItems, low, high)

\* the effect that inserts the candidate or offers the next comparison
ComparisonEffect ==
    /\ currentScreen = "batch-sort"
    /\ ComparisonEffectPending
    /\ IF low >= high
       THEN /\ sortedItems' = insertMediaItem(sortedItems, Ranked(currentItem, low), low)
            /\ currentItem' = NullMedia
            /\ sortedCount' = sortedCount + 1
            /\ UNCHANGED comparisonIndex
       ELSE /\ comparisonIndex' = getNextComparisonIndex(sortedItems, low, high)
            /\ UNCHANGED <<sortedItems, currentItem, sortedCount>>
    /\ UNCHANGED <<mediaItems, existingSortedItems, currentStage, remainingItems,
                   low, high, comparisonCount, consistent, itemComparisons>>
    /\ UNCHANGED <<listVars, bellVars, rateVars, animVars>>

\* an effect of the component has not run yet: React runs the effects of a
\* render before it delivers the next click
EffectsPending ==
    \/ currentStage = "initial"
    \/ currentStage = "sorting" /\ currentItem = NullMedia
    \/ ComparisonEffectPending

\* the two cards and their buttons are rendered
ComparisonOffered ==
    /\ currentScreen = "batch-sort"
    /\ currentStage # "complete"
    /\ currentItem # NullMedia
    /\ comparisonIndex # NullIndex
    /\ ~EffectsPending

\* the window's low end set at the pivot: setLow(comparisonIndex)
handleBetter_AtPivot ==
    /\ ComparisonOffered
    /\ low' = comparisonIndex
    /\ comparisonCount' = comparisonCount + 1
    /\ itemComparisons' = itemComparisons + 1
    /\ consistent' = (consistent /\ Prefers(currentItem,
                                            Identity(sortedItems[comparisonIndex + 1])))
    /\ UNCHANGED <<mediaItems, existingSortedItems, currentStage, sortedItems,
                   remainingItems, currentItem, high, comparisonIndex, sortedCount>>
    /\ UNCHANGED <<listVars, bellVars, rateVars, animVars>>

\* "I prefer this" under the new item
handleBetter ==
    /\ ComparisonOffered
    /\ low' = comparisonIndex + 1
    /\ comparisonCount' = comparisonCount + 1
    /\ itemComparisons' = itemComparisons + 1
    /\ consistent' = (consistent /\ Prefers(currentItem,
                                            Identity(sortedItems[comparisonIndex + 1])))
    /\ UNCHANGED <<mediaItems, existingSortedItems, currentStage, sortedItems,
                   remainingItems, currentItem, high, comparisonIndex, sortedCount>>
    /\ UNCHANGED <<listVars, bellVars, rateVars, animVars>>

\* the window's high end set one past the pivot: setHigh(comparisonIndex + 1)
handleWorse_OnePastPivot ==
    /\ ComparisonOffered
    /\ high' = comparisonIndex + 1
    /\ comparisonCount' = comparisonCount + 1
    /\ itemComparisons' = itemComparisons + 1
    /\ consistent' = (consistent /\ Prefers(Identity(sortedItems[comparisonIndex + 1]),
                                            currentItem))
    /\ UNCHANGED <<mediaItems, existingSortedItems, currentStage, sortedItems,
                   remainingItems, currentItem, low, comparisonIndex, sortedCount>>
    /\ UNCHANGED <<listVars, bellVars, rateVars, animVars>>

\* "I prefer this" under the existing item
handleWorse ==
    /\ ComparisonOffered
    /\ high' = comparisonIndex
    /\ comparisonCount' = comparisonCount + 1
    /\ itemComparisons' = itemComparisons + 1
    /\ consistent' = (consistent /\ Prefers(Identity(sortedItems[comparisonIndex + 1]),
                                            currentItem))
    /\ UNCHANGED <<mediaItems, existingSortedItems, currentStage, sortedItems,
                   remainingItems, currentItem, low, comparisonIndex, sortedCount>>
    /\ UNCHANGED <<listVars, bellVars, rateVars, animVars>>

(***************************************************************************)
(* components/BatchSorting.tsx, the revision with the animated cards: a    *)
(* click starts a 500 ms animation, and the window moves when its timer    *)
(* runs.  The initialization effect is the one above.                      *)
(***************************************************************************)
\* the effect that picks the next candidate or completes the sort
AnimatedPickNextEffect ==
    /\ currentScreen = "batch-sort"
    /\ currentStage = "sorting"
    /\ currentItem = NullMedia
    /\ ~isAnimating
    /\ IF Len(remainingItems) > 0
       THEN /\ currentItem' = remainingItems[1]
            /\ remainingItems' = Tail(remainingItems)
            /\ low' = 0
            /\ high' = Len(sortedItems)
            /\ comparisonIndex' = NullIndex
            /\ selectedCardType' = "null"
            /\ itemComparisons' = 0
            /\ UNCHANGED currentStage
       ELSE /\ currentStage' = "complete"
            /\ UNCHANGED <<currentItem, remainingItems, low, high,
                           comparisonIndex, selectedCardType, itemComparisons>>
    /\ UNCHANGED <<mediaItems, existingSortedItems, sortedItems, sortedCount,
                   comparisonCount, consistent, isAnimating, timers,
                   answersAccepted, lastClick>>
    /\ UNCHANGED <<listVars, bellVars, rateVars>>

\* the comparison effect has work to do: no animation runs, and the window
\* closed or the pivot is stale
AnimatedComparisonEffectPending ==
    /\ ~isAnimating
    /\ ComparisonEffectPending

\* the effect that inserts the candidate or offers the next comparison
AnimatedComparisonEffect ==
    /\ currentScreen = "batch-sort"
    /\ AnimatedComparisonEffectPending
    /\ IF low >= high
       THEN /\ sortedItems' = insertMediaItem(sortedItems, Ranked(currentItem, low), low)
            /\ currentItem' = NullMedia
            /\ sortedCount' = sortedCount + 1
            /\ UNCHANGED comparisonIndex
       ELSE /\ comparisonIndex' = getNextComparisonIndex(sortedItems, low, high)
            /\ UNCHANGED <<sortedItems, currentItem, sortedCount>>
    /\ UNCHANGED <<mediaItems, existingSortedItems, currentStage, remainingItems,
                   low, high, comparisonCount, consistent, itemComparisons>>
    /\ UNCHANGED <<listVars, bellVars, rateVars, animVars>>

\* an effect of the animated component has not run yet
AnimatedEffectsPending ==
    \/ currentStage = "initial"
    \/ currentStage = "sorting" /\ currentItem = NullMedia /\ ~isAnimating
    \/ AnimatedComparisonEffectPending

\* the two cards are rendered and take clicks
CardsShown ==
    /\ currentScreen = "batch-sort"
    /\ currentStage # "complete"
    /\ currentItem # NullMedia
    /\ comparisonIndex # NullIndex
    /\ ~AnimatedEffectsPending

\* what the callback given to setTimeout keeps of the render it was made in
Timeout(card) ==
    [card |-> card, comparisonIndex |-> comparisonIndex,
     comparisonCount |-> comparisonCount]

\* a click that passed the guard: the animation starts, the timer is set
StartAnimation(card, agrees) ==
    /\ selectedCardType' = card
    /\ isAnimating' = TRUE
    /\ timers' = Append(timers, Timeout(card))
    /\ answersAccepted' = answersAccepted + 1
    /\ itemComparisons' = itemComparisons + 1
    /\ consistent' = (consistent /\ agrees)
    /\ lastClick' = "accepted"

\* a click the handler returns from at once
IgnoreClick ==
    /\ lastClick' = "ignored"
    /\ UNCHANGED <<selectedCardType, isAnimating, timers, answersAccepted,
                   itemComparisons, consistent>>

\* the handler without its isAnimating guard: a second click during the
\* animation sets a second timer
handlePreferNewItem_NoAnimationGuard ==
    /\ CardsShown
    /\ Len(timers) < 2
    /\ StartAnimation("new", Prefers(currentItem,
                                     Identity(sortedItems[comparisonIndex + 1])))
    /\ UNCHANGED <<mediaItems, existingSortedItems, currentStage, sortedItems,
                   remainingItems, currentItem, low, high, comparisonIndex,
                   sortedCount, comparisonCount>>
    /\ UNCHANGED <<listVars, bellVars, rateVars>>

\* a click on the card of the new item
handlePreferNewItem ==
    /\ CardsShown
    /\ IF comparisonIndex = NullIndex \/ isAnimating
       THEN IgnoreClick
       ELSE StartAnimation("new", Prefers(currentItem,
                                          Identity(sortedItems[comparisonIndex + 1])))
    /\ UNCHANGED <<mediaItems, existingSortedItems, currentStage, sortedItems,
                   remainingItems, currentItem, low, high, comparisonIndex,
                   sortedCount, comparisonCount>>
    /\ UNCHANGED <<listVars, bellVars, rateVars>>

\* a click on the card of the existing item
handlePreferExistingItem ==
    /\ CardsShown
    /\ IF comparisonIndex = NullIndex \/ isAnimating
       THEN IgnoreClick
       ELSE StartAnimation("existing",
                           Prefers(Identity(sortedItems[comparisonIndex + 1]),
                                   currentItem))
    /\ UNCHANGED <<mediaItems, existingSortedItems, currentStage, sortedItems,
                   remainingItems, currentItem, low, high, comparisonIndex,
                   sortedCount, comparisonCount>>
    /\ UNCHANGED <<listVars, bellVars, rateVars>>

\* the callback sets the low end two past the pivot: setLow(comparisonIndex + 2)
AnimationTimeout_PastPivot(timeout) ==
    /\ IF timeout.card = "new"
       THEN low' = timeout.comparisonIndex + 2 /\ UNCHANGED high
       ELSE high' = timeout.comparisonIndex /\ UNCHANGED low
    /\ comparisonCount' = timeout.comparisonCount + 1
    /\ selectedCardType' = "null"
    /\ isAnimating' = FALSE

\* the callback of setTimeout: the window moves, the animation ends
AnimationTimeout(timeout) ==
    /\ IF timeout.card = "new"
       THEN low' = timeout.comparisonIndex + 1 /\ UNCHANGED high
       ELSE high' = timeout.comparisonIndex /\ UNCHANGED low
    /\ comparisonCount' = timeout.comparisonCount + 1
    /\ selectedCardType' = "null"
    /\ isAnimating' = FALSE

\* 500 ms after a click its timer runs; the timers run in the order set
animationCompletes ==
    /\ currentScreen = "batch-sort"
    /\ timers # <<>>
    /\ AnimationTimeout(Head(timers))
    /\ timers' = Tail(timers)
    /\ UNCHANGED <<mediaItems, existingSortedItems, currentStage, sortedItems,
                   remainingItems, currentItem, comparisonIndex, sortedCount,
                   consistent, itemComparisons, answersAccepted, lastClick>>
    /\ UNCHANGED <<listVars, bellVars, rateVars>>

(***************************************************************************)
(* components/MediaList.tsx                                                *)
(***************************************************************************)
\* [...items].sort((a, b) => b.rank - a.rank): a stable sort, best rank first
RECURSIVE InsertByRankDesc(_, _)
InsertByRankDesc(sorted, item) ==
    IF sorted = <<>> THEN <<item>>
    ELSE IF Head(sorted).rank >= item.rank
         THEN <<Head(sorted)>> \o InsertByRankDesc(Tail(sorted), item)
         ELSE <<item>> \o sorted

RECURSIVE SortByRankDesc(_)
SortByRankDesc(items) ==
    IF items = <<>> THEN <<>>
    ELSE InsertByRankDesc(SortByRankDesc(SubSeq(items, 1, Len(items) - 1)),
                          items[Len(items)])

\* BatchSorting leaves the screen: its state is discarded, the next mount
\* starts from the useState values again
UnmountBatchSorting ==
    /\ mediaItems' = <<>>
    /\ existingSortedItems' = <<>>
    /\ currentStage' = "initial"
    /\ sortedItems' = <<>>
    /\ remainingItems' = <<>>
    /\ currentItem' = NullMedia
    /\ low' = 0
    /\ high' = 0
    /\ comparisonIndex' = NullIndex
    /\ sortedCount' = 0
    /\ comparisonCount' = 0
    /\ consistent' = TRUE
    /\ itemComparisons' = 0
    /\ selectedCardType' = "null"
    /\ isAnimating' = FALSE
    /\ timers' = <<>>
    /\ answersAccepted' = 0
    /\ lastClick' = "none"

\* "Continue" on the completion screen: handleComplete, then MediaList's
\* handleBatchSortComplete and its effect on list.items
handleComplete ==
    /\ currentScreen = "batch-sort"
    /\ currentStage = "complete"
    /\ listSortedItems' = SortByRankDesc(sortedItems)
    /\ currentScreen' = "list"
    /\ lastChange' = "sort"
    /\ listConsistent' = (listConsistent /\ consistent)
    /\ UnmountBatchSorting
    /\ UNCHANGED <<draggedItem, bellVars, rateVars>>

(***************************************************************************)
(* Fixed-point arithmetic standing for the code's double arithmetic: a     *)
(* real x is the integer nearest to x * Scale; every operation rounds to   *)
(* the nearest unit.  NaN is a value of its own: every comparison with it  *)
(* is false and every operation on it yields it.                           *)
(***************************************************************************)
Scale == 1000 * 1000

NaN == 0 - 1000 * Scale

Abs(x) == IF x < 0 THEN 0 - x ELSE x

Sign(x) == IF x < 0 THEN 0 - 1 ELSE 1

\* a * b for a, b >= 0, without leaving 32 bits
MulPos(a, b) ==
    LET ah == a \div 1000
        al == a % 1000
        bh == b \div 1000
        bl == b % 1000
    IN  ah * bh + (ah * bl + al * bh + (al * bl + 500000) \div 1000) \div 1000

\* a * b
Mul(a, b) ==
    IF a = NaN \/ b = NaN THEN NaN
    ELSE Sign(a) * Sign(b) * MulPos(Abs(a), Abs(b))

\* a / b for a >= 0, 0 < b < 20 * Scale, by long division two digits at a time
DivPos(a, b) ==
    LET q0 == a \div b
        r0 == a % b
        q1 == (r0 * 100) \div b
        r1 == (r0 * 100) % b
        q2 == (r1 * 100) \div b
        r2 == (r1 * 100) % b
        q3 == (r2 * 100 + b \div 2) \div b
    IN  q0 * Scale + q1 * 10000 + q2 * 100 + q3

\* a / b; 0 / 0 is NaN
Div(a, b) ==
    IF a = NaN \/ b = NaN \/ (a = 0 /\ b = 0) THEN NaN
    ELSE Sign(a) * Sign(b) * DivPos(Abs(a), Abs(b))

\* 2 (t + t^3/3 + t^5/5 + ... + t^13/13), t2 = t^2
Atanh2Series(t, t2) ==
    LET t3  == MulPos(t, t2)
        t5  == MulPos(t3, t2)
        t7  == MulPos(t5, t2)
        t9  == MulPos(t7, t2)
        t11 == MulPos(t9, t2)
        t13 == MulPos(t11, t2)
    IN  2 * (t + t3 \div 3 + t5 \div 5 + t7 \div 7 + t9 \div 9 + t11 \div 11
               + t13 \div 13)

\* 2 * atanh(t) for 0 <= t < 1/3
Atanh2(t) == Atanh2Series(t, MulPos(t, t))

\* ln(x) for Scale <= x: halve down to [1, 2), ln x = k ln 2 + ln m
RECURSIVE LnAbove(_)
LnAbove(x) ==
    IF x >= 2 * Scale THEN 693147 + LnAbove((x + 1) \div 2)
    ELSE Atanh2(DivPos(x - Scale, x + Scale))

\* ln(x) for 0 < x < Scale: double up to [1, 2)
RECURSIVE LnBelow(_)
LnBelow(x) ==
    IF x < Scale THEN LnBelow(2 * x) - 693147
    ELSE Atanh2(DivPos(x - Scale, x + Scale))

\* Math.log: NaN for NaN and for a negative argument
Ln(x) ==
    IF x = NaN \/ x <= 0 THEN NaN
    ELSE IF x >= Scale THEN LnAbove(x)
    ELSE LnBelow(x)

\* -x: NaN stays NaN
Neg(x) == IF x = NaN THEN NaN ELSE 0 - x

\* a + b: NaN if either is NaN
Add(a, b) == IF a = NaN \/ b = NaN THEN NaN ELSE a + b

\* the clamp left out
Clamp_None(lo, hi, x) == x

\* Math.max(lo, Math.min(hi, x)): NaN stays NaN
Clamp(lo, hi, x) ==
    IF x = NaN THEN NaN
    ELSE IF x > hi THEN (IF hi < lo THEN lo ELSE hi)
    ELSE IF x < lo THEN lo
    ELSE x

\* parseFloat(x.toFixed(2))
ToFixed2(x) ==
    IF x = NaN THEN NaN
    ELSE Sign(x) * ((Abs(x) + 5000) \div 10000) * 10000

(***************************************************************************)
(* utils/bellCurve.ts                                                      *)
(***************************************************************************)
\* the coefficients a, b, c of approximateInverseNormalCDFHelper
CoefA == <<2506628, -18615001, 41391198, -25441060>>

CoefB == <<-8473511, 23083367, -21062241, 3130829>>

CoefC == <<337475, 976169, 160798, 27644, 3841>>

\* the central region: y * (((a3 r + a2) r + a1) r + a0)
\*                     / ((((b3 r + b2) r + b1) r + b0) r + 1)
CentralRegion(y, r) ==
    Div(Mul(y, Add(Mul(Add(Mul(Add(Mul(CoefA[4], r), CoefA[3]), r), CoefA[2]), r),
                   CoefA[1])),
        Add(Mul(Add(Mul(Add(Mul(Add(Mul(CoefB[4], r), CoefB[3]), r), CoefB[2]), r),
                    CoefB[1]), r), Scale))

\* the tail region: c0 + c1 r + c2 r^2 + c3 r^3 + c4 r^4
TailRegion(r) ==
    Add(CoefC[1],
        Add(Mul(CoefC[2], r),
            Add(Mul(Mul(CoefC[3], r), r),
                Add(Mul(Mul(Mul(CoefC[4], r), r), r),
                    Mul(Mul(Mul(Mul(CoefC[5], r), r), r), r)))))

approximateInverseNormalCDFHelper(p) ==
    IF p # NaN /\ 2 * p >= Scale /\ 100 * p <= 92 * Scale
    THEN CentralRegion(p - Scale \div 2,
                       Mul(p - Scale \div 2, p - Scale \div 2))
    ELSE TailRegion(Ln(Neg(Ln(IF p = NaN THEN NaN
                               ELSE IF 2 * p < Scale THEN p ELSE Scale - p))))

\* the lower half not negated
approximateInverseNormalCDF_NoNegate(p) ==
    IF p # NaN /\ p <= 0 THEN 0 - 5 * Scale
    ELSE IF p # NaN /\ p >= Scale THEN 5 * Scale
    ELSE IF p # NaN /\ 2 * p < Scale
         THEN approximateInverseNormalCDFHelper(Scale - p)
    ELSE approximateInverseNormalCDFHelper(p)

approximateInverseNormalCDF(p) ==
    IF p # NaN /\ p <= 0 THEN 0 - 5 * Scale
    ELSE IF p # NaN /\ p >= Scale THEN 5 * Scale
    ELSE IF p # NaN /\ 2 * p < Scale
         THEN Neg(approximateInverseNormalCDFHelper(Scale - p))
    ELSE approximateInverseNormalCDFHelper(p)

\* the z-score subtracted: mean - stdDev * z
BellRating_Minus(index, totalItems, mean, stdDev, minRating, maxRating) ==
    ToFixed2(Clamp(minRating, maxRating,
                   Add(mean, Neg(Mul(stdDev, approximateInverseNormalCDF(
                                                 Div(index, totalItems - 1)))))))

\* the rating of the item at 0-based index of totalItems sorted items:
\* percentile = index / (totalItems - 1), rating = mean + stdDev * z
BellRating(index, totalItems, mean, stdDev, minRating, maxRating) ==
    ToFixed2(Clamp(minRating, maxRating,
                   Add(mean, Mul(stdDev, approximateInverseNormalCDF(
                                             Div(index, totalItems - 1))))))

applyBellCurve(items, mean, stdDev, minRating, maxRating) ==
    IF Len(items) = 0 THEN <<>>
    ELSE LET sorted == SortByRankDesc(items)
         IN  [i \in 1..Len(sorted) |->
                 [sorted[i] EXCEPT !.rating =
                     BellRating(i - 1, Len(sorted), mean, stdDev, minRating, maxRating)]]

(***************************************************************************)
(* The batch sorter on its own: the props are drawn from the bounded sets. *)
(***************************************************************************)
\* sequences over S of length at most n
SeqsUpTo(S, n) == UNION {[1..k -> S] : k \in 0..n}

\* the list has no two items of one identity
NoDuplicates(s) ==
    \A i, j \in 1..Len(s) : i # j => Identity(s[i]) # Identity(s[j])

\* least preferred first: each item is preferred to the one before it
SortedAscending(s) ==
    \A i \in 1..Len(s) - 1 : Prefers(Identity(s[i + 1]), Identity(s[i]))

\* most preferred first
SortedDescending(s) ==
    \A i \in 1..Len(s) - 1 : Prefers(Identity(s[i]), Identity(s[i + 1]))

\* the lists a batch can be given: no duplicates, dense ranks, in either order
ExistingLists ==
    {updateRankingsAfterInsertion([i \in 1..Len(s) |-> Ranked(s[i], 0)]) :
        s \in {t \in SeqsUpTo(Media, MaxExisting) :
                  SortedAscending(t) \/ SortedDescending(t)}}

InitSortState ==
    /\ currentStage = "initial"
    /\ sortedItems = <<>>
    /\ remainingItems = <<>>
    /\ currentItem = NullMedia
    /\ low = 0
    /\ high = 0
    /\ comparisonIndex = NullIndex
    /\ sortedCount = 0
    /\ comparisonCount = 0
    /\ consistent = TRUE
    /\ itemComparisons = 0
    /\ selectedCardType = "null"
    /\ isAnimating = FALSE
    /\ timers = <<>>
    /\ answersAccepted = 0
    /\ lastClick = "none"

\* no call of applyBellCurve is modelled
InitBellIdle ==
    /\ bcItems = <<>>
    /\ bcMean = 0
    /\ bcStdDev = 0
    /\ bcMinRating = 0
    /\ bcMaxRating = 0
    /\ bcCalls = 0
    /\ bcReturned = FALSE
    /\ bcThrew = FALSE
    /\ bcResult = <<>>

\* BellCurveRating.tsx: the bounds of a rating
MIN_RATING == Scale \div 2

MAX_RATING == 5 * Scale

\* the state of BellCurveRating's gestures and view as useState creates it
InitCurveIdle ==
    /\ visibleMinRating = MIN_RATING
    /\ visibleMaxRating = MAX_RATING
    /\ isZoomed = FALSE
    /\ draggingPoint = NullIndex
    /\ dragOffsetX = 0
    /\ draggingAdjuster = NullIndex
    /\ adjusterOffsetX = 0
    /\ originalAdjusterRating = NoRating
    /\ pointerOver = "page"
    /\ dragMoves = 0
    /\ eventsUsed = {}
    /\ lastEvent = "none"

\* MediaList before any commit, BellCurveRating not mounted
InitRateIdle ==
    /\ InitCurveIdle
    /\ draggedItem = NullItem
    /\ lastChange = "none"
    /\ listConsistent = TRUE
    /\ rateMean = 3 * Scale
    /\ rateStdDev = Scale
    /\ rateItems = <<>>
    /\ rateInitialized = FALSE
    /\ draggedItemKey = NullMedia
    /\ dragStartX = 0

InitSort ==
    /\ InitBellIdle
    /\ InitRateIdle
    /\ currentScreen = "batch-sort"
    /\ existingSortedItems \in ExistingLists
    /\ listSortedItems = existingSortedItems
    /\ mediaItems \in SeqsUpTo(Media, IF existingSortedItems = <<>> THEN MaxBatch ELSE MaxNew)
    /\ InitSortState

NextSort ==
    \/ InitializationEffect
    \/ PickNextEffect
    \/ ComparisonEffect
    \/ handleBetter
    \/ handleWorse
    \/ handleComplete

SpecSort == InitSort /\ [][NextSort]_vars

(***************************************************************************)
(* applyBellCurve on its own: the arguments are drawn from bounded sets.   *)
(***************************************************************************)
\* longest list given to applyBellCurve
MaxBellItems == 30

\* n unrated items, given best rank first or worst rank first
BellList(n, bestFirst) ==
    [i \in 1..n |-> [id |-> i, type |-> "movie",
                     rank |-> IF bestFirst THEN n - i ELSE i - 1,
                     rating |-> NoRating]]

BellLists == {BellList(n, b) : n \in 0..MaxBellItems, b \in BOOLEAN}

\* the means: the slider's ends and middle, and one value past each bound
BellMeans == {0 - 2 * Scale, Scale, 3 * Scale, 5 * Scale, 9 * Scale}

\* the standard deviations: the slider's ends and middle, zero and a negative one
BellStdDevs == {0 - Scale, 0, Scale \div 2, Scale, 2 * Scale}

\* <<minRating, maxRating>>: the defaults, and what BellCurveRating passes
BellRanges == {<<0, 5 * Scale>>, <<Scale \div 2, 5 * Scale>>}

InitBell ==
    /\ InitRateIdle
    /\ currentScreen = "list"
    /\ listSortedItems = <<>>
    /\ mediaItems = <<>>
    /\ existingSortedItems = <<>>
    /\ InitSortState
    /\ bcItems \in BellLists
    /\ bcMean \in BellMeans
    /\ bcStdDev \in BellStdDevs
    /\ \E range \in BellRanges : bcMinRating = range[1] /\ bcMaxRating = range[2]
    /\ bcCalls = 0
    /\ bcReturned = FALSE
    /\ bcThrew = FALSE
    /\ bcResult = <<>>

\* the calls made with one set of arguments
MaxBellCalls == 2

\* the call sorts the caller's array in place and writes the ratings into the
\* caller's items: items.sort(...) and item.rating = ...
CallApplyBellCurve_InPlace ==
    /\ bcCalls < MaxBellCalls
    /\ bcCalls' = bcCalls + 1
    /\ bcResult' = applyBellCurve(bcItems, bcMean, bcStdDev, bcMinRating, bcMaxRating)
    /\ bcItems' = bcResult'
    /\ bcReturned' = TRUE
    /\ bcThrew' = FALSE
    /\ UNCHANGED <<bcMean, bcStdDev, bcMinRating, bcMaxRating>>
    /\ UNCHANGED <<listVars, sortVars, rateVars>>

\* the call: applyBellCurve has no throw statement, it always returns; it
\* sorts a copy of the array and returns new items, so the caller's array and
\* items stay as they were given
CallApplyBellCurve ==
    /\ bcCalls < MaxBellCalls
    /\ bcCalls' = bcCalls + 1
    /\ bcResult' = applyBellCurve(bcItems, bcMean, bcStdDev, bcMinRating, bcMaxRating)
    /\ bcReturned' = TRUE
    /\ bcThrew' = FALSE
    /\ UNCHANGED <<bcItems, bcMean, bcStdDev, bcMinRating, bcMaxRating>>
    /\ UNCHANGED <<listVars, sortVars, rateVars>>

NextBell == CallApplyBellCurve

SpecBell == InitBell /\ [][NextBell]_vars

(***************************************************************************)
(* components/BellCurveRating.tsx                                          *)
(***************************************************************************)
\* getItemKey: `${item.id}-${item.type}`
getItemKey(item) == Identity(item)

\* rating || 3.0
RatingOrDefault(item) ==
    IF item.rating = NoRating \/ item.rating = 0 \/ item.rating = NaN
    THEN 3 * Scale
    ELSE item.rating

Min2(a, b) == IF b < a THEN b ELSE a

Max2(a, b) == IF b > a THEN b ELSE a

\* Math.min(...ratings) of the items' ratings (|| 3.0)
RECURSIVE MinOfRatings(_)
MinOfRatings(list) ==
    IF Len(list) = 1 THEN RatingOrDefault(list[1])
    ELSE Min2(RatingOrDefault(list[1]), MinOfRatings(Tail(list)))

\* Math.max(...ratings)
RECURSIVE MaxOfRatings(_)
MaxOfRatings(list) ==
    IF Len(list) = 1 THEN RatingOrDefault(list[1])
    ELSE Max2(RatingOrDefault(list[1]), MaxOfRatings(Tail(list)))

\* scaleRatings, one rating: its relative position in the old range, taken
\* in the new range
ScaledRating(rating, currentMin, currentMax, newMin, newMax) ==
    ToFixed2(IF currentMax - currentMin > 0
             THEN Add(newMin, Mul(Div(rating - currentMin, currentMax - currentMin),
                                  newMax - newMin))
             ELSE Add(newMin, Mul(newMax - newMin, Scale \div 2)))

\* scaleRatings, the map over the items
ScaleInto(list, currentMin, currentMax, newMin, newMax) ==
    [i \in 1..Len(list) |->
        IF list[i].rating = NoRating THEN list[i]
        ELSE [list[i] EXCEPT !.rating =
                 ScaledRating(list[i].rating, currentMin, currentMax, newMin, newMax)]]

\* scaleRatings with isScalingUp: newMin = boundaryValue + 0.1
ScaleUp(list, currentMin, currentMax, newMin) ==
    ScaleInto(list, currentMin, currentMax, newMin,
              Min2(MAX_RATING,
                   currentMax + Mul(Abs(newMin - currentMin), Scale \div 2)))

\* scaleRatings without isScalingUp: newMax = boundaryValue - 0.1
ScaleDown(list, currentMin, currentMax, newMax) ==
    ScaleInto(list, currentMin, currentMax,
              Max2(MIN_RATING,
                   currentMin - Mul(Abs(currentMax - newMax), Scale \div 2)),
              newMax)

scaleRatings(list, boundaryValue, isScalingUp) ==
    IF Len(list) <= 1 THEN list
    ELSE IF isScalingUp
         THEN ScaleUp(list, MinOfRatings(list), MaxOfRatings(list),
                      boundaryValue + Scale \div 10)
         ELSE ScaleDown(list, MinOfRatings(list), MaxOfRatings(list),
                        boundaryValue - Scale \div 10)

\* findIndex by identity: the 0-based index of the first match, -1 if none
findIndex(list, media) ==
    IF \E i \in 1..Len(list) : Identity(list[i]) = Identity(media)
    THEN (CHOOSE i \in 1..Len(list) :
              /\ Identity(list[i]) = Identity(media)
              /\ \A j \in 1..i - 1 : Identity(list[j]) # Identity(media)) - 1
    ELSE -1

\* the nearest rated item at 0-based index i or before it, NullItem if none
RECURSIVE UpperRatedItem(_, _)
UpperRatedItem(sorted, i) ==
    IF i < 0 THEN NullItem
    ELSE IF sorted[i + 1].rating # NoRating THEN sorted[i + 1]
    ELSE UpperRatedItem(sorted, i - 1)

\* the nearest rated item at 0-based index i or after it, NullItem if none
RECURSIVE LowerRatedItem(_, _)
LowerRatedItem(sorted, i) ==
    IF i >= Len(sorted) THEN NullItem
    ELSE IF sorted[i + 1].rating # NoRating THEN sorted[i + 1]
    ELSE LowerRatedItem(sorted, i + 1)

\* interpolatedRating of the unrated item at rankPosition
InterpolatedRating(sorted, rankPosition, upperRatedItem, lowerRatedItem) ==
    IF upperRatedItem # NullItem /\ lowerRatedItem # NullItem
    THEN Div(RatingOrDefault(upperRatedItem) + RatingOrDefault(lowerRatedItem),
             2 * Scale)
    ELSE IF rankPosition = 0 THEN RatingOrDefault(sorted[2])
    ELSE IF rankPosition = Len(sorted) - 1
         THEN RatingOrDefault(sorted[Len(sorted) - 1])
    ELSE 3 * Scale

\* processedItems without the item about to be added
ExistingRatedItems(processedItems, unratedItem) ==
    SelectSeq(processedItems,
              LAMBDA item : Identity(item) # Identity(unratedItem))

\* processedItems after the rescaling an item at an end of the list asks for
RescaledItems(sorted, rankPosition, upperRatedItem, lowerRatedItem, unratedItem, processedItems) ==
    IF upperRatedItem # NullItem /\ lowerRatedItem # NullItem THEN processedItems
    ELSE IF rankPosition = 0
         THEN IF Len(ExistingRatedItems(processedItems, unratedItem)) > 0
              THEN scaleRatings(ExistingRatedItems(processedItems, unratedItem),
                                RatingOrDefault(sorted[2]), TRUE)
              ELSE processedItems
    ELSE IF rankPosition = Len(sorted) - 1
         THEN IF Len(ExistingRatedItems(processedItems, unratedItem)) > 0
              THEN scaleRatings(ExistingRatedItems(processedItems, unratedItem),
                                RatingOrDefault(sorted[Len(sorted) - 1]), FALSE)
              ELSE processedItems
    ELSE processedItems

\* one pass of the forEach over the unrated items, the neighbours found
InterpolateBetween(sorted, rankPosition, upperRatedItem, lowerRatedItem, unratedItem, processedItems) ==
    Append(RescaledItems(sorted, rankPosition, upperRatedItem, lowerRatedItem,
                         unratedItem, processedItems),
           [unratedItem EXCEPT !.rating =
               ToFixed2(Clamp(MIN_RATING, MAX_RATING,
                              InterpolatedRating(sorted, rankPosition,
                                                 upperRatedItem, lowerRatedItem)))])

\* one pass of the forEach, the position found
InterpolateAt(sorted, rankPosition, unratedItem, processedItems) ==
    InterpolateBetween(sorted, rankPosition,
                       UpperRatedItem(sorted, rankPosition - 1),
                       LowerRatedItem(sorted, rankPosition + 1),
                       unratedItem, processedItems)

\* unratedItems.forEach(...)
RECURSIVE InterpolateUnrated(_, _, _)
InterpolateUnrated(sorted, unratedItems, processedItems) ==
    IF unratedItems = <<>> THEN processedItems
    ELSE InterpolateUnrated(sorted, Tail(unratedItems),
             InterpolateAt(sorted, findIndex(sorted, Head(unratedItems)),
                           Head(unratedItems), processedItems))

\* the initialization distributing every list that has an unrated item
InitializeSorted_AlwaysDistribute(sorted, unratedItems, ratedItems, mean, stdDev) ==
    IF Len(unratedItems) > 0
    THEN SortByRankDesc(applyBellCurve(sorted, mean, stdDev, MIN_RATING,
                                       MAX_RATING))
    ELSE sorted

\* the initialization effect on the list sorted by rank
InitializeSorted(sorted, unratedItems, ratedItems, mean, stdDev) ==
    IF Len(unratedItems) > 0
    THEN IF Len(ratedItems) > 0
         THEN SortByRankDesc(InterpolateUnrated(sorted, unratedItems, ratedItems))
         ELSE SortByRankDesc(applyBellCurve(sorted, mean, stdDev, MIN_RATING,
                                            MAX_RATING))
    ELSE sorted

\* the items the initialization effect sets for rankedList
InitializedItems(rankedList, mean, stdDev) ==
    InitializeSorted(SortByRankDesc(rankedList),
                     SelectSeq(SortByRankDesc(rankedList),
                               LAMBDA item : item.rating = NoRating),
                     SelectSeq(SortByRankDesc(rankedList),
                               LAMBDA item : item.rating # NoRating),
                     mean, stdDev)

\* BellCurveRating leaves the screen: its state is discarded, the next mount
\* starts from the useState values again
UnmountBellCurveRating ==
    /\ rateMean' = 3 * Scale
    /\ rateStdDev' = Scale
    /\ rateItems' = <<>>
    /\ rateInitialized' = FALSE
    /\ draggedItemKey' = NullMedia
    /\ dragStartX' = 0
    /\ visibleMinRating' = MIN_RATING
    /\ visibleMaxRating' = MAX_RATING
    /\ isZoomed' = FALSE
    /\ draggingPoint' = NullIndex
    /\ dragOffsetX' = 0
    /\ draggingAdjuster' = NullIndex
    /\ adjusterOffsetX' = 0
    /\ originalAdjusterRating' = NoRating
    /\ pointerOver' = "page"
    /\ dragMoves' = 0
    /\ eventsUsed' = {}
    /\ lastEvent' = "none"

\* an effect of the component has not run yet
RateEffectPending == currentScreen = "rate" /\ ~rateInitialized

\* the effect on [rankedList, mean, stdDev]
RatingInitializationEffect ==
    /\ RateEffectPending
    /\ rateItems' = InitializedItems(listSortedItems, rateMean, rateStdDev)
    /\ rateInitialized' = TRUE
    /\ isZoomed' = FALSE
    /\ visibleMinRating' = MIN_RATING
    /\ visibleMaxRating' = MAX_RATING
    /\ eventsUsed' = {}
    /\ lastEvent' = "initialize"
    /\ UNCHANGED <<rateMean, rateStdDev, cardVars, curveVars, pointerOver>>
    /\ UNCHANGED <<listVars, sortVars, bellVars>>

\* the positions of the slider of the mean that are tried
SliderMeans == {3 * Scale, 4 * Scale}

\* the positions of the slider of the standard deviation that are tried
SliderStdDevs == {Scale \div 2, Scale}

\* the pointer positions (clientX) that are tried
PointerXs == {0, 80, 400}

\* the moves of a drag that set the items, in one visit of the screen
MaxDragMoves == 2

\* the controls answer: rendered, effects run, no card held, the pointer on
\* the page outside the curve and the cards
RateControlsIdle ==
    /\ currentScreen = "rate"
    /\ ~RateEffectPending
    /\ draggedItemKey = NullMedia
    /\ pointerOver = "page"

\* a control outside the curve and the cards was used
ControlUsed(name) ==
    /\ eventsUsed' = eventsUsed \cup {"control"}
    /\ lastEvent' = name

\* the slider of the mean
setMean ==
    /\ RateControlsIdle
    /\ \E value \in SliderMeans :
           /\ rateMean' = value
           /\ rateInitialized' = (value = rateMean)
    /\ ControlUsed("setMean")
    /\ UNCHANGED <<rateStdDev, rateItems, cardVars, viewVars, curveVars, pointerOver>>
    /\ UNCHANGED <<listVars, sortVars, bellVars>>

\* the slider of the standard deviation
setStdDev ==
    /\ RateControlsIdle
    /\ \E value \in SliderStdDevs :
           /\ rateStdDev' = value
           /\ rateInitialized' = (value = rateStdDev)
    /\ ControlUsed("setStdDev")
    /\ UNCHANGED <<rateMean, rateItems, cardVars, viewVars, curveVars, pointerOver>>
    /\ UNCHANGED <<listVars, sortVars, bellVars>>

\* the screen is rendered, its effects have run and the pointer is over region
PointerIn(region) ==
    /\ currentScreen = "rate"
    /\ ~RateEffectPending
    /\ pointerOver = region

\* mouse down on a card
handleCardDragStart ==
    /\ PointerIn("cards")
    /\ \E index \in 0..Len(rateItems) - 1, clientX \in PointerXs :
           /\ draggedItemKey' = getItemKey(rateItems[index + 1])
           /\ dragStartX' = clientX
    /\ eventsUsed' = eventsUsed \cup {"card"}
    /\ lastEvent' = "handleCardDragStart"
    /\ UNCHANGED <<rateMean, rateStdDev, rateItems, rateInitialized>>
    /\ UNCHANGED <<viewVars, curveVars, pointerOver>>
    /\ UNCHANGED <<listVars, sortVars, bellVars>>

\* Approximate card width + margin
cardWidth == 160

\* the ranks stay with the places as the ratings do: each card takes the
\* rating and the rank of the place it moves to
SwapCards_RanksStay(list, currentIndex, targetIndex) ==
    [list EXCEPT
        ![currentIndex + 1] =
            [list[targetIndex + 1] EXCEPT !.rating = list[currentIndex + 1].rating,
                                          !.rank = list[currentIndex + 1].rank],
        ![targetIndex + 1] =
            [list[currentIndex + 1] EXCEPT !.rating = list[targetIndex + 1].rating,
                                           !.rank = list[targetIndex + 1].rank]]

\* the two items exchange places and take their ratings with them
SwapCards_WholeItems(list, currentIndex, targetIndex) ==
    [list EXCEPT ![currentIndex + 1] = list[targetIndex + 1],
                 ![targetIndex + 1] = list[currentIndex + 1]]

\* the items with the cards at currentIndex and targetIndex exchanged, each
\* card taking the rating of the place it moves to
SwapCards(list, currentIndex, targetIndex) ==
    [list EXCEPT
        ![currentIndex + 1] =
            [list[targetIndex + 1] EXCEPT !.rating = list[currentIndex + 1].rating],
        ![targetIndex + 1] =
            [list[currentIndex + 1] EXCEPT !.rating = list[targetIndex + 1].rating]]

\* the move of the pointer that a handleCardDrag is given
CardDragInput(clientX) ==
    IF 2 * Abs(clientX - dragStartX) < cardWidth THEN "handleCardDrag:short"
    ELSE IF clientX < dragStartX THEN "handleCardDrag:left"
    ELSE "handleCardDrag:right"

\* the card past an end taken round to the other end
CardDragTo_Wrap(clientX, currentIndex, targetIndex) ==
    IF \/ 2 * Abs(clientX - dragStartX) < cardWidth
       \/ currentIndex = -1
    THEN UNCHANGED <<rateItems, dragStartX, dragMoves>>
    ELSE /\ rateItems' = SwapCards(rateItems, currentIndex,
                                   (targetIndex + Len(rateItems)) % Len(rateItems))
         /\ dragStartX' = clientX
         /\ dragMoves' = dragMoves + 1

\* the swap without setDragStartX(currentX): the reference stays where the
\* drag started
CardDragTo_KeepsReference(clientX, currentIndex, targetIndex) ==
    IF \/ 2 * Abs(clientX - dragStartX) < cardWidth
       \/ currentIndex = -1
       \/ targetIndex < 0
       \/ targetIndex >= Len(rateItems)
    THEN UNCHANGED <<rateItems, dragStartX, dragMoves>>
    ELSE /\ rateItems' = SwapCards(rateItems, currentIndex, targetIndex)
         /\ dragMoves' = dragMoves + 1
         /\ UNCHANGED dragStartX

\* handleCardDrag with the pointer at clientX, the dragged card at currentIndex
CardDragTo(clientX, currentIndex, targetIndex) ==
    IF \/ 2 * Abs(clientX - dragStartX) < cardWidth
       \/ currentIndex = -1
       \/ targetIndex < 0
       \/ targetIndex >= Len(rateItems)
    THEN UNCHANGED <<rateItems, dragStartX, dragMoves>>
    ELSE /\ rateItems' = SwapCards(rateItems, currentIndex, targetIndex)
         /\ dragStartX' = clientX
         /\ dragMoves' = dragMoves + 1

\* mouse move over the cards while one is held
handleCardDrag ==
    /\ PointerIn("cards")
    /\ draggedItemKey # NullMedia
    /\ dragMoves < MaxDragMoves
    /\ \E clientX \in PointerXs :
           /\ CardDragTo(clientX, findIndex(rateItems, draggedItemKey),
                         findIndex(rateItems, draggedItemKey)
                             + (IF clientX - dragStartX > 0 THEN 1 ELSE -1))
           /\ lastEvent' = CardDragInput(clientX)
    /\ UNCHANGED <<rateMean, rateStdDev, rateInitialized, draggedItemKey>>
    /\ UNCHANGED <<draggingPoint, dragOffsetX, draggingAdjuster, adjusterOffsetX>>
    /\ UNCHANGED <<originalAdjusterRating, viewVars, pointerOver, eventsUsed>>
    /\ UNCHANGED <<listVars, sortVars, bellVars>>

\* mouse up over the cards while one is held
handleCardDragEnd ==
    /\ PointerIn("cards")
    /\ draggedItemKey # NullMedia
    /\ draggedItemKey' = NullMedia
    /\ lastEvent' = "handleCardDragEnd"
    /\ UNCHANGED <<rateMean, rateStdDev, rateItems, rateInitialized, dragStartX>>
    /\ UNCHANGED <<viewVars, curveVars, pointerOver, eventsUsed>>
    /\ UNCHANGED <<listVars, sortVars, bellVars>>

\* the pointer leaves the cards: onMouseLeave is attached while a card is held
cardsMouseLeave ==
    /\ PointerIn("cards")
    /\ pointerOver' = "page"
    /\ draggedItemKey' = NullMedia
    /\ lastEvent' = IF draggedItemKey # NullMedia THEN "handleCardDragEnd" ELSE lastEvent
    /\ UNCHANGED <<rateMean, rateStdDev, rateItems, rateInitialized, dragStartX>>
    /\ UNCHANGED <<viewVars, curveVars, eventsUsed>>
    /\ UNCHANGED <<listVars, sortVars, bellVars>>

\* the parts of the page that take mouse events of their own
Regions == {"curve", "cards"}

\* the pointer comes from the page onto the curve or the cards
pointerEnter ==
    /\ PointerIn("page")
    /\ \E region \in Regions : pointerOver' = region
    /\ UNCHANGED <<rateMean, rateStdDev, rateItems, rateInitialized, cardVars>>
    /\ UNCHANGED <<viewVars, curveVars, eventsUsed, lastEvent>>
    /\ UNCHANGED <<listVars, sortVars, bellVars>>

\* "Reset to Curve"
handleResetRatings ==
    /\ RateControlsIdle
    /\ rateItems' = applyBellCurve(SortByRankDesc(rateItems), rateMean, rateStdDev,
                                   MIN_RATING, MAX_RATING)
    /\ ControlUsed("handleResetRatings")
    /\ UNCHANGED <<rateMean, rateStdDev, rateInitialized, cardVars>>
    /\ UNCHANGED <<viewVars, curveVars, pointerOver>>
    /\ UNCHANGED <<listVars, sortVars, bellVars>>

\* updatedItems of handleSaveRatings: the ranks by position
RanksByPosition(list) ==
    [i \in 1..Len(list) |-> [list[i] EXCEPT !.rank = Len(list) - 1 - (i - 1)]]

\* the identities of a list in its order
IdentitiesInOrder(list) == [i \in 1..Len(list) |-> Identity(list[i])]

\* "Save Ratings": handleSaveRatings, then MediaList's handleRatingSaved and
\* its effect on list.items
handleSaveRatings ==
    /\ RateControlsIdle
    /\ listSortedItems' = SortByRankDesc(RanksByPosition(rateItems))
    /\ currentScreen' = "list"
    /\ lastChange' = "save"
    /\ listConsistent' = (/\ listConsistent
                          /\ IdentitiesInOrder(listSortedItems') = IdentitiesInOrder(listSortedItems))
    /\ UnmountBellCurveRating
    /\ UNCHANGED <<draggedItem, sortVars, bellVars>>

(***************************************************************************)
(* components/BellCurveRating.tsx: the gestures on the curve.  Positions   *)
(* along the curve are pixels in fixed point, pointer positions (clientX)  *)
(* whole pixels; the left edge of the curve is at clientX 0.               *)
(***************************************************************************)
CURVE_WIDTH == 800

POINT_RADIUS == 6

\* Lower = less sensitive (0.5 = half as sensitive)
DRAG_SENSITIVITY == Scale \div 2

\* Pixels of movement to ignore
DRAG_DEAD_ZONE == 2

\* calculateDraggedPosition returned null
NullPosition == -1

\* Math.round(x * 100) / 100
Round2(x) == IF x = NaN THEN NaN ELSE ((x + 5000) \div 10000) * 10000

\* items.map((item) => item.rating || 3.0)
RatingsOf(list) == [i \in 1..Len(list) |-> RatingOrDefault(list[i])]

RECURSIVE InsertAscending(_, _)
InsertAscending(sorted, x) ==
    IF sorted = <<>> THEN <<x>>
    ELSE IF x < Head(sorted) THEN <<x>> \o sorted
    ELSE <<Head(sorted)>> \o InsertAscending(Tail(sorted), x)

\* [...ratings].sort((a, b) => a - b)
RECURSIVE SortAscending(_)
SortAscending(ratings) ==
    IF ratings = <<>> THEN <<>>
    ELSE InsertAscending(SortAscending(SubSeq(ratings, 1, Len(ratings) - 1)),
                         ratings[Len(ratings)])

\* Array.prototype.indexOf: the first index holding x, or -1
indexOf(s, x) ==
    IF \E i \in 1..Len(s) : s[i] = x
    THEN (CHOOSE i \in 1..Len(s) : s[i] = x /\ \A j \in 1..(i - 1) : s[j] # x) - 1
    ELSE -1

\* the bounds of findNeighborBounds from the sorted ratings and the index found
NeighborBounds(sortedRatings, currentIndex) ==
    [lowerBound |-> IF currentIndex > 0
                    THEN sortedRatings[currentIndex]
                    ELSE MIN_RATING,
     upperBound |-> IF currentIndex < Len(sortedRatings) - 1
                    THEN sortedRatings[currentIndex + 2]
                    ELSE MAX_RATING]

findNeighborBounds(list, currentRating) ==
    NeighborBounds(SortAscending(RatingsOf(list)),
                   indexOf(SortAscending(RatingsOf(list)), currentRating))

\* Math.max(bounds.lowerBound, Math.min(bounds.upperBound, rating))
ClampToNeighbors(bounds, rating) ==
    Max2(bounds.lowerBound, Min2(bounds.upperBound, rating))

\* the position of calculateDraggedPosition for a movement deltaX
DraggedPosition(currentX, deltaX) ==
    IF Abs(deltaX) < DRAG_DEAD_ZONE * Scale
    THEN NullPosition
    ELSE Max2(0, Min2(CURVE_WIDTH * Scale, currentX + Mul(deltaX, DRAG_SENSITIVITY)))

\* calculateDraggedPosition with rectBounds.left = 0
calculateDraggedPosition(clientX, currentX, offsetX) ==
    DraggedPosition(currentX, (clientX * Scale - offsetX) - currentX)

\* ratingToX
ratingToX(rating) ==
    IF Div(rating - visibleMinRating, visibleMaxRating - visibleMinRating) = NaN
    THEN NaN
    ELSE Div(rating - visibleMinRating, visibleMaxRating - visibleMinRating)
             * CURVE_WIDTH

\* x / CURVE_WIDTH
OverWidth(x) == (x + CURVE_WIDTH \div 2) \div CURVE_WIDTH

\* xToRating
xToRating(x) ==
    Clamp(MIN_RATING, MAX_RATING,
          ToFixed2(Add(visibleMinRating,
                       Mul(OverWidth(x), visibleMaxRating - visibleMinRating))))

\* itemsWithIndices.sort: the item at place j comes before the one at place i
SortsBefore(list, j, i) ==
    \/ RatingOrDefault(list[j]) < RatingOrDefault(list[i])
    \/ RatingOrDefault(list[j]) = RatingOrDefault(list[i]) /\ j < i

\* sortedIndex of adjustProportionally
SortedIndexOf(list, itemIndex) ==
    Cardinality({j \in 1..Len(list) : SortsBefore(list, j, itemIndex + 1)})

\* newItems before the neighbours are adjusted: only the moved item updated
MovedOnly(list, itemIndex, newRating) ==
    [list EXCEPT ![itemIndex + 1].rating = newRating]

\* the scaled rating with the displacement turned away from the fixed end
ScaledBelow_Outward(listMinRating, itemRating, originalRange, newRange) ==
    Add(listMinRating, Neg(Mul(Div(itemRating - listMinRating, originalRange), newRange)))

\* the scaled rating left as it was
ScaledAbove_Unscaled(listMaxRating, itemRating, originalRange, newRange) ==
    itemRating

\* listMinRating + percentageOfRange * newRange
ScaledBelow(listMinRating, itemRating, originalRange, newRange) ==
    Add(listMinRating, Mul(Div(itemRating - listMinRating, originalRange), newRange))

\* listMaxRating - percentageOfRange * newRange
ScaledAbove(listMaxRating, itemRating, originalRange, newRange) ==
    Add(listMaxRating, Neg(Mul(Div(listMaxRating - itemRating, originalRange), newRange)))

\* the branch of adjustProportionally for a move down with items below
AdjustBelow(list, itemIndex, newRating, currentRating, listMinRating) ==
    IF currentRating - listMinRating < Scale \div 100 THEN list
    ELSE IF \/ Div(newRating - listMinRating, currentRating - listMinRating) < Scale \div 10
            \/ Div(newRating - listMinRating, currentRating - listMinRating) > 10 * Scale
    THEN list
    ELSE [j \in 1..Len(list) |->
             IF j = itemIndex + 1 THEN [list[j] EXCEPT !.rating = newRating]
             ELSE IF SortsBefore(list, j, itemIndex + 1)
             THEN [list[j] EXCEPT !.rating =
                      ScaledBelow(listMinRating, RatingOrDefault(list[j]),
                                  currentRating - listMinRating,
                                  newRating - listMinRating)]
             ELSE list[j]]

\* the branch of adjustProportionally for a move up with items above
AdjustAbove(list, itemIndex, newRating, currentRating, listMaxRating) ==
    IF listMaxRating - currentRating < Scale \div 100
    THEN MovedOnly(list, itemIndex, newRating)
    ELSE IF \/ Div(listMaxRating - newRating, listMaxRating - currentRating) < 0
            \/ Div(listMaxRating - newRating, listMaxRating - currentRating) > 10 * Scale
    THEN MovedOnly(list, itemIndex, newRating)
    ELSE [j \in 1..Len(list) |->
             IF j = itemIndex + 1 THEN [list[j] EXCEPT !.rating = newRating]
             ELSE IF SortsBefore(list, itemIndex + 1, j)
             THEN [list[j] EXCEPT !.rating =
                      ScaledAbove(listMaxRating, RatingOrDefault(list[j]),
                                  listMaxRating - currentRating,
                                  listMaxRating - newRating)]
             ELSE list[j]]

\* adjustProportionally once the current rating of the moved item is read
AdjustFrom(list, itemIndex, newRating, currentRating) ==
    IF currentRating = newRating THEN list
    ELSE IF newRating < currentRating /\ SortedIndexOf(list, itemIndex) > 0
    THEN AdjustBelow(list, itemIndex, newRating, currentRating, MinOfRatings(list))
    ELSE IF ~(newRating < currentRating)
            /\ SortedIndexOf(list, itemIndex) < Len(list) - 1
    THEN AdjustAbove(list, itemIndex, newRating, currentRating, MaxOfRatings(list))
    ELSE MovedOnly(list, itemIndex, newRating)

adjustProportionally(list, itemIndex, newRating) ==
    AdjustFrom(list, itemIndex, newRating, RatingOrDefault(list[itemIndex + 1]))

\* the clicks tried on a circle, in whole pixels from the pixel of its centre
ClickOffsets == {0}

\* the pointer positions over the curve (clientX) that are tried for a move
CurveXs == {0, 400, 800}

\* the clientX of the clicks tried on the circle whose centre is at pointX
ClickXs(pointX) ==
    {clientX \in {pointX \div Scale + d : d \in ClickOffsets} :
        /\ 0 <= clientX
        /\ clientX <= CURVE_WIDTH
        /\ Abs(clientX * Scale - pointX) <= POINT_RADIUS * Scale}

\* the circle of the item at index is not covered by the circle, drawn later at
\* the same place, of an item with the same rating
Topmost(list, index) ==
    \A j \in (index + 2)..Len(list) :
        RatingOrDefault(list[j]) # RatingOrDefault(list[index + 1])

\* mouse down on the point of the item at index
handlePointDragStart ==
    /\ PointerIn("curve")
    /\ \E index \in 0..Len(rateItems) - 1 :
           /\ Topmost(rateItems, index)
           /\ \E clientX \in ClickXs(ratingToX(RatingOrDefault(rateItems[index + 1]))) :
                  /\ draggingPoint' = index
                  /\ dragStartX' = clientX
                  /\ dragOffsetX' = clientX * Scale
                                    - ratingToX(RatingOrDefault(rateItems[index + 1]))
    /\ eventsUsed' = eventsUsed \cup {"point"}
    /\ lastEvent' = "handlePointDragStart"
    /\ UNCHANGED <<rateMean, rateStdDev, rateItems, rateInitialized, draggedItemKey>>
    /\ UNCHANGED <<draggingAdjuster, adjusterOffsetX, originalAdjusterRating, dragMoves>>
    /\ UNCHANGED <<viewVars, pointerOver>>
    /\ UNCHANGED <<listVars, sortVars, bellVars>>

\* the dragged point pushes along the points it passes: every item on its
\* way takes the new rating as well
PointDragSet_PushesOthers(newRating, currentRating) ==
    IF newRating = currentRating
    THEN /\ UNCHANGED <<rateItems, dragMoves>>
         /\ lastEvent' = "handlePointDrag:same"
    ELSE /\ rateItems' =
                [i \in 1..Len(rateItems) |->
                    IF \/ i = draggingPoint + 1
                       \/ Min2(newRating, currentRating) <= RatingOrDefault(rateItems[i])
                          /\ RatingOrDefault(rateItems[i]) <= Max2(newRating, currentRating)
                    THEN [rateItems[i] EXCEPT !.rating = newRating]
                    ELSE rateItems[i]]
         /\ dragMoves' = dragMoves + 1
         /\ lastEvent' = "handlePointDrag:moved"

\* handlePointDrag from the clamped rating on: only update if rating changed
PointDragSet(newRating, currentRating) ==
    IF newRating = currentRating
    THEN /\ UNCHANGED <<rateItems, dragMoves>>
         /\ lastEvent' = "handlePointDrag:same"
    ELSE /\ rateItems' = [rateItems EXCEPT ![draggingPoint + 1].rating = newRating]
         /\ dragMoves' = dragMoves + 1
         /\ lastEvent' = "handlePointDrag:moved"

\* handlePointDrag from the new position on
PointDragAt(newX, currentRating) ==
    IF newX = NullPosition
    THEN /\ UNCHANGED <<rateItems, dragMoves>>
         /\ lastEvent' = "handlePointDrag:still"
    ELSE PointDragSet(ClampToNeighbors(findNeighborBounds(rateItems, currentRating),
                                       Round2(xToRating(newX))),
                      currentRating)

\* handlePointDrag with the pointer at clientX
PointDragTo(clientX, currentRating) ==
    PointDragAt(calculateDraggedPosition(clientX, ratingToX(currentRating), dragOffsetX),
                currentRating)

\* mouse move over the curve while a point is held
handlePointDrag ==
    /\ PointerIn("curve")
    /\ draggingPoint # NullIndex
    /\ dragMoves < MaxDragMoves
    /\ \E clientX \in CurveXs :
           PointDragTo(clientX, RatingOrDefault(rateItems[draggingPoint + 1]))
    /\ UNCHANGED <<rateMean, rateStdDev, rateInitialized, cardVars, viewVars>>
    /\ UNCHANGED <<draggingPoint, dragOffsetX, draggingAdjuster, adjusterOffsetX>>
    /\ UNCHANGED <<originalAdjusterRating, pointerOver, eventsUsed>>
    /\ UNCHANGED <<listVars, sortVars, bellVars>>

\* the state set by handlePointDragEnd
PointDragEnded ==
    /\ draggingPoint' = NullIndex
    /\ dragOffsetX' = 0
    /\ lastEvent' = "handlePointDragEnd"
    /\ UNCHANGED <<draggingAdjuster, adjusterOffsetX, originalAdjusterRating>>

\* mouse down on the adjuster of the item at index
handleAdjusterDragStart ==
    /\ PointerIn("curve")
    /\ \E index \in 0..Len(rateItems) - 1 :
           /\ Topmost(rateItems, index)
           /\ \E clientX \in ClickXs(ratingToX(RatingOrDefault(rateItems[index + 1]))) :
                  /\ draggingAdjuster' = index
                  /\ dragStartX' = clientX
                  /\ adjusterOffsetX' = clientX * Scale
                                        - ratingToX(RatingOrDefault(rateItems[index + 1]))
                  /\ originalAdjusterRating' = RatingOrDefault(rateItems[index + 1])
    /\ eventsUsed' = eventsUsed \cup {"adjuster"}
    /\ lastEvent' = "handleAdjusterDragStart"
    /\ UNCHANGED <<rateMean, rateStdDev, rateItems, rateInitialized, draggedItemKey>>
    /\ UNCHANGED <<draggingPoint, dragOffsetX, dragMoves>>
    /\ UNCHANGED <<viewVars, pointerOver>>
    /\ UNCHANGED <<listVars, sortVars, bellVars>>

\* a safety check of the move down returns: tiny range or extreme ratio
RejectedBelow(newRating, currentRating, listMinRating) ==
    \/ currentRating - listMinRating < Scale \div 100
    \/ Div(newRating - listMinRating, currentRating - listMinRating) < Scale \div 10
    \/ Div(newRating - listMinRating, currentRating - listMinRating) > 10 * Scale

\* a safety check of the move up returns
RejectedAbove(newRating, currentRating, listMaxRating) ==
    \/ listMaxRating - currentRating < Scale \div 100
    \/ Div(listMaxRating - newRating, listMaxRating - currentRating) < 0
    \/ Div(listMaxRating - newRating, listMaxRating - currentRating) > 10 * Scale

\* adjustProportionally(list, itemIndex, newRating) returns from a safety check
AdjustRejected(list, itemIndex, newRating, currentRating) ==
    /\ currentRating # newRating
    /\ IF newRating < currentRating
       THEN /\ SortedIndexOf(list, itemIndex) > 0
            /\ RejectedBelow(newRating, currentRating, MinOfRatings(list))
       ELSE /\ SortedIndexOf(list, itemIndex) < Len(list) - 1
            /\ RejectedAbove(newRating, currentRating, MaxOfRatings(list))

\* the end of a handleAdjusterDrag that called adjustProportionally
AdjusterOutcome(newTargetRating, draggedRating) ==
    IF AdjustRejected(rateItems, draggingAdjuster, newTargetRating, draggedRating)
    THEN (IF newTargetRating < draggedRating
          THEN "handleAdjusterDrag:rejected down"
          ELSE "handleAdjusterDrag:rejected up")
    ELSE (IF newTargetRating < draggedRating
          THEN "handleAdjusterDrag:down"
          ELSE "handleAdjusterDrag:up")

\* handleAdjusterDrag from the clamped target on
AdjusterDragSet(newTargetRating, draggedRating) ==
    IF draggedRating = newTargetRating
    THEN /\ UNCHANGED <<rateItems, dragMoves>>
         /\ lastEvent' = "handleAdjusterDrag:same"
    ELSE /\ rateItems' = adjustProportionally(rateItems, draggingAdjuster, newTargetRating)
         /\ dragMoves' = dragMoves + 1
         /\ lastEvent' = AdjusterOutcome(newTargetRating, draggedRating)

\* handleAdjusterDrag from the new position on
AdjusterDragAt(newX, draggedRating) ==
    IF newX = NullPosition
    THEN /\ UNCHANGED <<rateItems, dragMoves>>
         /\ lastEvent' = "handleAdjusterDrag:still"
    ELSE AdjusterDragSet(ClampToNeighbors(findNeighborBounds(rateItems, draggedRating),
                                          xToRating(newX)),
                         draggedRating)

\* handleAdjusterDrag with the pointer at clientX
AdjusterDragTo(clientX, draggedRating) ==
    AdjusterDragAt(calculateDraggedPosition(clientX, ratingToX(draggedRating),
                                            adjusterOffsetX),
                   draggedRating)

\* mouse move over the curve while an adjuster and no point is held
handleAdjusterDrag ==
    /\ PointerIn("curve")
    /\ draggingPoint = NullIndex
    /\ draggingAdjuster # NullIndex
    /\ originalAdjusterRating # NoRating
    /\ dragMoves < MaxDragMoves
    /\ \E clientX \in CurveXs :
           AdjusterDragTo(clientX, RatingOrDefault(rateItems[draggingAdjuster + 1]))
    /\ UNCHANGED <<rateMean, rateStdDev, rateInitialized, cardVars, viewVars>>
    /\ UNCHANGED <<draggingPoint, dragOffsetX, draggingAdjuster, adjusterOffsetX>>
    /\ UNCHANGED <<originalAdjusterRating, pointerOver, eventsUsed>>
    /\ UNCHANGED <<listVars, sortVars, bellVars>>

\* the state set by handleAdjusterDragEnd
AdjusterDragEnded ==
    /\ draggingAdjuster' = NullIndex
    /\ adjusterOffsetX' = 0
    /\ originalAdjusterRating' = NoRating
    /\ lastEvent' = "handleAdjusterDragEnd"
    /\ UNCHANGED <<draggingPoint, dragOffsetX>>

\* onMouseUp and onMouseLeave of the curve: the point's gesture is ended if
\* there is one, else the adjuster's if there is one
CurveGestureEnded ==
    IF draggingPoint # NullIndex THEN PointDragEnded
    ELSE IF draggingAdjuster # NullIndex THEN AdjusterDragEnded
    ELSE UNCHANGED <<draggingPoint, dragOffsetX, draggingAdjuster, adjusterOffsetX,
                     originalAdjusterRating, lastEvent>>

\* mouse up over the curve
curveMouseUp ==
    /\ PointerIn("curve")
    /\ draggingPoint # NullIndex \/ draggingAdjuster # NullIndex
    /\ CurveGestureEnded
    /\ UNCHANGED <<rateMean, rateStdDev, rateItems, rateInitialized, cardVars>>
    /\ UNCHANGED <<viewVars, dragMoves, pointerOver, eventsUsed>>
    /\ UNCHANGED <<listVars, sortVars, bellVars>>

\* the pointer leaves the curve
curveMouseLeave ==
    /\ PointerIn("curve")
    /\ pointerOver' = "page"
    /\ CurveGestureEnded
    /\ UNCHANGED <<rateMean, rateStdDev, rateItems, rateInitialized, cardVars>>
    /\ UNCHANGED <<viewVars, dragMoves, eventsUsed>>
    /\ UNCHANGED <<listVars, sortVars, bellVars>>

\* no gesture takes the mouse moves of the region: over the curve neither a
\* point nor an adjuster is held, over the cards no card is held
NoGestureIn(region) ==
    IF region = "curve"
    THEN draggingPoint = NullIndex /\ draggingAdjuster = NullIndex
    ELSE draggedItemKey = NullMedia

\* the move handler of the cards records the pointer before it tests whether
\* a card is held
mouseMoveIdle_TracksPointer ==
    /\ \E region \in Regions : PointerIn(region) /\ NoGestureIn(region)
    /\ \E clientX \in PointerXs : dragStartX' = clientX
    /\ lastEvent' = "mouseMove:idle"
    /\ UNCHANGED <<rateMean, rateStdDev, rateItems, rateInitialized, draggedItemKey>>
    /\ UNCHANGED <<viewVars, curveVars, pointerOver, eventsUsed>>
    /\ UNCHANGED <<listVars, sortVars, bellVars>>

\* mouse move over the curve or the cards with no gesture of the region
\* active: onMouseMove of the svg calls neither handler, onMouseMove of the
\* cards is undefined, and each handler returns at once on a null index or key
mouseMoveIdle ==
    /\ \E region \in Regions : PointerIn(region) /\ NoGestureIn(region)
    /\ lastEvent' = "mouseMove:idle"
    /\ UNCHANGED <<rateMean, rateStdDev, rateItems, rateInitialized, cardVars>>
    /\ UNCHANGED <<viewVars, curveVars, pointerOver, eventsUsed>>
    /\ UNCHANGED <<listVars, sortVars, bellVars>>

(***************************************************************************)
(* components/MediaList.tsx                                                *)
(***************************************************************************)
\* list.listType
ListType == "movie"

\* the list screen answers: no item is being dragged
ListIdle == currentScreen = "list" /\ draggedItem = NullItem

\* "Add Media"
OpenBatchSelect ==
    /\ ListIdle
    /\ currentScreen' = "batch-select"
    /\ UNCHANGED <<listSortedItems, draggedItem, lastChange, listConsistent>>
    /\ UNCHANGED <<sortVars, bellVars, rateVars>>

\* BatchSorting mounts over mediaItems and the list
MountBatchSorting(filteredMedia) ==
    /\ mediaItems' = filteredMedia
    /\ existingSortedItems' = listSortedItems
    /\ UNCHANGED <<currentStage, sortedItems, remainingItems, currentItem, low,
                   high, comparisonIndex, sortedCount, comparisonCount,
                   consistent, itemComparisons, animVars>>

\* the selections BatchMediaSelection can hand over: at least two items, no
\* identity twice
Selections ==
    {sel \in SeqsUpTo(Catalogue, Cardinality(Catalogue)) :
        /\ Len(sel) >= 2
        /\ \A i, j \in 1..Len(sel) : i # j => sel[i] # sel[j]}

\* "Continue" on the selection screen
handleBatchSelectComplete ==
    /\ currentScreen = "batch-select"
    /\ \E selectedMedia \in Selections :
           IF Len(SelectSeq(selectedMedia, LAMBDA media : media.type = ListType)) < 2
           THEN UNCHANGED <<currentScreen, sortVars>>
           ELSE /\ currentScreen' = "batch-sort"
                /\ MountBatchSorting(SelectSeq(selectedMedia,
                                               LAMBDA media : media.type = ListType))
    /\ UNCHANGED <<listSortedItems, draggedItem, lastChange, listConsistent>>
    /\ UNCHANGED <<bellVars, rateVars>>

\* "Cancel" on the selection, sorting and rating screens
handleCancel ==
    /\ currentScreen \in {"batch-select", "batch-sort", "rate"}
    /\ currentScreen = "rate" => RateControlsIdle
    /\ currentScreen' = "list"
    /\ UnmountBatchSorting
    /\ UnmountBellCurveRating
    /\ UNCHANGED <<listSortedItems, draggedItem, lastChange, listConsistent>>
    /\ UNCHANGED bellVars

\* "Assign Ratings": BellCurveRating mounts, its initialization effect is due
OpenRateScreen ==
    /\ ListIdle
    /\ Len(listSortedItems) >= 2
    /\ currentScreen' = "rate"
    /\ UNCHANGED <<listSortedItems, draggedItem, lastChange, listConsistent>>
    /\ UNCHANGED <<sortVars, bellVars, rateVars>>

\* the drag of a list item starts: only unrated items can be dragged
handleDragStart ==
    /\ ListIdle
    /\ \E i \in 1..Len(listSortedItems) :
           IF listSortedItems[i].rating # NoRating
           THEN UNCHANGED draggedItem
           ELSE draggedItem' = listSortedItems[i]
    /\ UNCHANGED <<currentScreen, listSortedItems, lastChange, listConsistent>>
    /\ UNCHANGED <<sortVars, bellVars, rateVars>>

\* the drag ends without a drop that moved the item
handleDragEnd ==
    /\ currentScreen = "list"
    /\ draggedItem # NullItem
    /\ draggedItem' = NullItem
    /\ UNCHANGED <<currentScreen, listSortedItems, lastChange, listConsistent>>
    /\ UNCHANGED <<sortVars, bellVars, rateVars>>

\* splice(index, 1)
SpliceOut(list, index) ==
    SubSeq(list, 1, index) \o SubSeq(list, index + 2, Len(list))

\* splice(index, 0, item)
SpliceIn(list, index, item) ==
    SubSeq(list, 1, index) \o <<item>> \o SubSeq(list, index + 1, Len(list))

\* the ranks handleDrop gives by position
RanksByIndex(list) ==
    [i \in 1..Len(list) |-> [list[i] EXCEPT !.rank = Len(list) - 1 - (i - 1)]]

\* rerankedItems of handleDrop
ReorderedItems(list, draggedIndex, targetIndex) ==
    RanksByIndex(SpliceIn(SpliceOut(list, draggedIndex), targetIndex,
                          list[draggedIndex + 1]))

\* handleDrop on targetItem, the two indices found
DropAt(targetItem, draggedIndex, targetIndex) ==
    IF \/ draggedItem.rating # NoRating
       \/ Identity(draggedItem) = Identity(targetItem)
       \/ draggedIndex < 0
       \/ targetIndex < 0
    THEN UNCHANGED <<listSortedItems, draggedItem, lastChange, listConsistent>>
    ELSE /\ listSortedItems' =
                SortByRankDesc(ReorderedItems(listSortedItems, draggedIndex,
                                              targetIndex))
         /\ draggedItem' = NullItem
         /\ lastChange' = "drop"
         /\ listConsistent' = FALSE

\* the dragged item is dropped on an item of the list
handleDrop ==
    /\ currentScreen = "list"
    /\ draggedItem # NullItem
    /\ \E i \in 1..Len(listSortedItems) :
           DropAt(listSortedItems[i], findIndex(listSortedItems, draggedItem),
                  findIndex(listSortedItems, listSortedItems[i]))
    /\ UNCHANGED currentScreen
    /\ UNCHANGED <<sortVars, bellVars, rateVars>>

(***************************************************************************)
(* The application: a new list, filled and rated through the screens.      *)
(***************************************************************************)
Init ==
    /\ InitBellIdle
    /\ InitRateIdle
    /\ currentScreen = "list"
    /\ listSortedItems = <<>>
    /\ mediaItems = <<>>
    /\ existingSortedItems = <<>>
    /\ InitSortState

Next ==
    \/ OpenBatchSelect
    \/ handleBatchSelectComplete
    \/ handleCancel
    \/ InitializationEffect
    \/ PickNextEffect
    \/ ComparisonEffect
    \/ handleBetter
    \/ handleWorse
    \/ handleComplete
    \/ handleDragStart
    \/ handleDragEnd
    \/ handleDrop
    \/ OpenRateScreen
    \/ RatingInitializationEffect
    \/ setMean
    \/ setStdDev
    \/ handleCardDragStart
    \/ handleCardDrag
    \/ handleCardDragEnd
    \/ cardsMouseLeave
    \/ curveMouseLeave
    \/ pointerEnter
    \/ handleResetRatings
    \/ handleSaveRatings

Spec == Init /\ [][Next]_vars

(***************************************************************************)
(* components/BellCurveRating.tsx: the visible range of the curve.         *)
(***************************************************************************)
\* Math.min(...ratings)
MinOf(ratings) ==
    CHOOSE r \in Range(ratings) : \A other \in Range(ratings) : r <= other

\* Math.max(...ratings)
MaxOf(ratings) ==
    CHOOSE r \in Range(ratings) : \A other \in Range(ratings) : r >= other

\* padding: 10% of the span of the data
Padding(dataMin, dataMax) == Mul(dataMax - dataMin, Scale \div 10)

\* newMin with the lower limit left out
PaddedMin_Unclamped(dataMin, dataMax) == dataMin - Padding(dataMin, dataMax)

\* newMin
PaddedMin(dataMin, dataMax) ==
    Max2(MIN_RATING, dataMin - Padding(dataMin, dataMax))

\* newMax
PaddedMax(dataMin, dataMax) ==
    Min2(MAX_RATING, dataMax + Padding(dataMin, dataMax))

\* the state set by resetZoom
ZoomReset ==
    /\ visibleMinRating' = MIN_RATING
    /\ visibleMaxRating' = MAX_RATING
    /\ isZoomed' = FALSE

\* calculateVisibleRange from newMin and newMax on: only zoom if the range is
\* significantly smaller than the full range
ZoomTo(newMin, newMax) ==
    IF newMax - newMin < Mul(MAX_RATING - MIN_RATING, 7 * (Scale \div 10))
    THEN /\ visibleMinRating' = newMin
         /\ visibleMaxRating' = newMax
         /\ isZoomed' = TRUE
    ELSE ZoomReset

\* "Zoom to Points"
calculateVisibleRange ==
    /\ RateControlsIdle
    /\ IF Len(rateItems) < 2
       THEN UNCHANGED viewVars
       ELSE ZoomTo(PaddedMin(MinOf(RatingsOf(rateItems)), MaxOf(RatingsOf(rateItems))),
                   PaddedMax(MinOf(RatingsOf(rateItems)), MaxOf(RatingsOf(rateItems))))
    /\ ControlUsed("calculateVisibleRange")
    /\ UNCHANGED <<rateMean, rateStdDev, rateItems, rateInitialized, cardVars>>
    /\ UNCHANGED <<curveVars, pointerOver>>
    /\ UNCHANGED <<listVars, sortVars, bellVars>>

\* "Full Range": the button is disabled unless the curve is zoomed
resetZoom ==
    /\ RateControlsIdle
    /\ isZoomed
    /\ ZoomReset
    /\ ControlUsed("resetZoom")
    /\ UNCHANGED <<rateMean, rateStdDev, rateItems, rateInitialized, cardVars>>
    /\ UNCHANGED <<curveVars, pointerOver>>
    /\ UNCHANGED <<listVars, sortVars, bellVars>>

(***************************************************************************)
(* The rating screen on its own: BellCurveRating mounted with a rankedList *)
(* drawn from a bounded set, the user acting on the curve, the cards and   *)
(* the controls until the ratings are saved.                               *)
(***************************************************************************)
\* the longest list rated
MaxRateItems == 3

\* the item at place i of a rankedList of n items: sorted by rank, highest first
RateItem(i, n, rating) ==
    [id |-> i, type |-> "movie", rank |-> n - i, rating |-> rating]

\* the rankedList of n items with the given ratings by place
RateList(n, ratings) == [i \in 1..n |-> RateItem(i, n, ratings[i])]

\* the ratings of the items rated, in the order of the list
RECURSIVE RatedRatings(_)
RatedRatings(ratings) ==
    IF ratings = <<>> THEN <<>>
    ELSE IF Head(ratings) = NoRating THEN RatedRatings(Tail(ratings))
    ELSE <<Head(ratings)>> \o RatedRatings(Tail(ratings))

\* never decreasing along the sequence
NonDecreasing(s) == \A i \in 1..Len(s) - 1 : s[i] <= s[i + 1]

\* the ratings saved by an earlier visit that are tried
SavedRatings == {Scale, 399 * (Scale \div 100), 4 * Scale}

\* the lists rated: never rated before, or rated at every place by an earlier
\* visit, the ratings never decreasing along the list
RateLists ==
    {RateList(Len(ratings), ratings) :
        ratings \in {r \in UNION {[1..k -> SavedRatings \cup {NoRating}] : k \in 2..MaxRateItems} :
                        /\ NonDecreasing(r)
                        /\ (\A i \in 1..Len(r) : r[i] = NoRating)
                              \/ (\A i \in 1..Len(r) : r[i] # NoRating)}}

InitRate ==
    /\ InitBellIdle
    /\ InitRateIdle
    /\ InitSortState
    /\ mediaItems = <<>>
    /\ existingSortedItems = <<>>
    /\ currentScreen = "rate"
    /\ listSortedItems \in RateLists

NextRate ==
    \/ RatingInitializationEffect
    \/ pointerEnter
    \/ handlePointDragStart
    \/ handlePointDrag
    \/ handleAdjusterDragStart
    \/ handleAdjusterDrag
    \/ curveMouseUp
    \/ curveMouseLeave
    \/ handleCardDragStart
    \/ handleCardDrag
    \/ handleCardDragEnd
    \/ cardsMouseLeave
    \/ mouseMoveIdle
    \/ handleSaveRatings

SpecRate == InitRate /\ [][NextRate]_vars

(***************************************************************************)
(* The initialization of the ratings on its own: BellCurveRating mounted   *)
(* with a rankedList in which any item may be unrated.                     *)
(***************************************************************************)
\* the longest list initialized
MaxPlaceItems == 4

\* the ratings of an earlier visit that are tried: the bounds, ratings within
\* 0.1 of a bound, and the middle
PlacedRatings ==
    {MIN_RATING, MIN_RATING + Scale \div 20, 3 * Scale,
     MAX_RATING - Scale \div 20, MAX_RATING}

\* the lists initialized: each item unrated or rated, the ratings of the
\* rated ones never decreasing along the list
PlaceLists ==
    {RateList(Len(ratings), ratings) :
        ratings \in {r \in UNION {[1..k -> PlacedRatings \cup {NoRating}] :
                                     k \in 2..MaxPlaceItems} :
                        NonDecreasing(RatedRatings(r))}}

InitPlace ==
    /\ InitBellIdle
    /\ InitRateIdle
    /\ InitSortState
    /\ mediaItems = <<>>
    /\ existingSortedItems = <<>>
    /\ currentScreen = "rate"
    /\ listSortedItems \in PlaceLists

NextPlace == RatingInitializationEffect

SpecPlace == InitPlace /\ [][NextPlace]_vars

(***************************************************************************)
(* The visible range of the curve: BellCurveRating mounted with a          *)
(* rankedList, the user moving cards and using "Zoom to Points" and "Full  *)
(* Range".  The gestures on the curve are left to SpecRate.                *)
(***************************************************************************)
\* the ratings of an earlier visit that are tried
ZoomRatings ==
    {MIN_RATING, Scale, 3 * Scale, 35 * (Scale \div 10), 399 * (Scale \div 100),
     4 * Scale, MAX_RATING}

\* the lists shown: never rated before, or rated at every place by an earlier
\* visit, the ratings never decreasing along the list
ZoomLists ==
    {RateList(Len(ratings), ratings) :
        ratings \in {r \in UNION {[1..k -> ZoomRatings \cup {NoRating}] : k \in 2..MaxRateItems} :
                        /\ NonDecreasing(r)
                        /\ (\A i \in 1..Len(r) : r[i] = NoRating)
                              \/ (\A i \in 1..Len(r) : r[i] # NoRating)}}

InitZoom ==
    /\ InitBellIdle
    /\ InitRateIdle
    /\ InitSortState
    /\ mediaItems = <<>>
    /\ existingSortedItems = <<>>
    /\ currentScreen = "rate"
    /\ listSortedItems \in ZoomLists

NextZoom ==
    \/ RatingInitializationEffect
    \/ pointerEnter
    \/ curveMouseLeave
    \/ handleCardDragStart
    \/ handleCardDrag
    \/ handleCardDragEnd
    \/ cardsMouseLeave
    \/ calculateVisibleRange
    \/ resetZoom

SpecZoom == InitZoom /\ [][NextZoom]_vars

(***************************************************************************)
(* The animated batch sorter on its own, over the same props.              *)
(***************************************************************************)
NextAnimated ==
    \/ InitializationEffect
    \/ AnimatedPickNextEffect
    \/ AnimatedComparisonEffect
    \/ handlePreferNewItem
    \/ handlePreferExistingItem
    \/ animationCompletes
    \/ handleComplete

SpecAnimated == InitSort /\ [][NextAnimated]_vars

(***************************************************************************)
(* The batch sorters with a user who answers: an effect that is due runs,  *)
(* a timer that is set runs out, and a comparison that stays offered is    *)
(* answered.                                                               *)
(***************************************************************************)
SortFairness ==
    /\ WF_vars(InitializationEffect)
    /\ WF_vars(PickNextEffect)
    /\ WF_vars(ComparisonEffect)
    /\ WF_vars(handleBetter \/ handleWorse)

SpecSortLive == SpecSort /\ SortFairness

AnimatedFairness ==
    /\ WF_vars(InitializationEffect)
    /\ WF_vars(AnimatedPickNextEffect)
    /\ WF_vars(AnimatedComparisonEffect)
    /\ WF_vars(animationCompletes)
    /\ WF_vars((handlePreferNewItem \/ handlePreferExistingItem) /\ ~isAnimating)

SpecAnimatedLive == SpecAnimated /\ AnimatedFairness

(***************************************************************************)
(* Properties of the batch sorter.                                         *)
(***************************************************************************)
\* the smallest k with 2^k >= n
RECURSIVE CeilLog2(_)
CeilLog2(n) == IF n <= 1 THEN 0 ELSE 1 + CeilLog2((n + 1) \div 2)

\* the candidates not yet inserted, in the order they will be taken
Pending == (IF currentItem = NullMedia THEN <<>> ELSE <<currentItem>>) \o remainingItems

\* the 1-based index of the first occurrence of media in items
FirstIndex(media, items) ==
    CHOOSE i \in 1..Len(items) :
        /\ items[i] = media
        /\ \A j \in 1..i - 1 : items[j] # media

\* the sort is over and every item of the batch and of the list is in the result
SortedEverything ==
    /\ Identities(sortedItems) = Identities(existingSortedItems) \cup Range(mediaItems)
    /\ NoDuplicates(sortedItems)

C3_NoDuplicateIdentities ==
    (currentStage # "initial" /\ NoDuplicates(existingSortedItems))
    => /\ NoDuplicates(sortedItems \o [i \in 1..Len(Pending) |-> Ranked(Pending[i], 0)])
       /\ Identities(sortedItems) \cup Range(Pending)
              = Identities(existingSortedItems) \cup Range(mediaItems)
       /\ \A i, j \in 1..Len(Pending) :
              i < j => FirstIndex(Pending[i], mediaItems) < FirstIndex(Pending[j], mediaItems)

\* a batch that repeats a listed movie and adds the show with the same id:
\* the movie is discarded, the show is inserted
C3_Witness ==
    /\ currentStage = "complete"
    /\ Len(mediaItems) = 2
    /\ mediaItems[1] = [id |-> 1, type |-> "movie"]
    /\ mediaItems[2] = [id |-> 1, type |-> "tv"]
    /\ isMediaDuplicate(mediaItems[1], existingSortedItems)
    /\ Len(sortedItems) = Len(existingSortedItems) + 1

\* C4: a candidate placed into a sequence of N items is asked at most
\* ceil(log2(N+1)) comparisons, whatever the answers; the first item of a
\* batch sorted from scratch is placed with none (while it is alone in the
\* sequence every comparison counted belongs to the second candidate).
C4_ComparisonsPerItem ==
    /\ currentItem # NullMedia => itemComparisons <= CeilLog2(Len(sortedItems) + 1)
    /\ currentItem = NullMedia => itemComparisons <= CeilLog2(Len(sortedItems))
    /\ (existingSortedItems = <<>> /\ Len(sortedItems) <= 1)
           => comparisonCount = itemComparisons

\* Scenario B at its worst: a fifth item placed with three comparisons
C4_Witness ==
    /\ Len(existingSortedItems) = 4
    /\ Len(sortedItems) = 5
    /\ currentItem = NullMedia
    /\ itemComparisons = 3

\* C5: when N items were sorted from scratch the comparison counter at the
\* complete stage is at most N * ceil(log2 N), whatever the answers.
C5_TotalComparisons ==
    (currentStage = "complete" /\ existingSortedItems = <<>>)
    => comparisonCount <= Len(sortedItems) * CeilLog2(Len(sortedItems))

\* four items sorted from scratch with the most comparisons binary insertion needs
C5_Witness ==
    /\ currentStage = "complete"
    /\ existingSortedItems = <<>>
    /\ Len(sortedItems) = 4
    /\ comparisonCount = 5

\* the identities among mediaItems that the list did not hold
UniqueNewCandidates == Range(mediaItems) \ Identities(existingSortedItems)

\* the number of places of the sorted sequence that hold the identity
Occurrences(identity) ==
    Cardinality({i \in 1..Len(sortedItems) : Identity(sortedItems[i]) = identity})

\* the sort completed with every new candidate in the sequence once
CompleteWithEveryCandidate ==
    currentStage = "complete" =>
        /\ Len(sortedItems) = Len(existingSortedItems) + Cardinality(UniqueNewCandidates)
        /\ \A identity \in UniqueNewCandidates : Occurrences(identity) = 1
        /\ \A identity \in Identities(existingSortedItems) : Occurrences(identity) = 1

\* a step that applies an answer narrows the window
AnswerNarrowsWindow ==
    comparisonCount' > comparisonCount => high' - low' < high - low

\* C22: when every offered comparison is eventually answered, a batch sort
\* eventually reaches the stage "complete"; each accepted answer strictly
\* decreases high - low; every unique new candidate is inserted exactly once
\* and the final sequence is as long as the existing one plus the number of
\* unique new candidates.
C22_SortCompletes ==
    /\ <>(currentStage = "complete")
    /\ [][AnswerNarrowsWindow]_vars
    /\ []CompleteWithEveryCandidate

\* a sort of two candidates into a list of three completed, after four answers
C22_Witness ==
    /\ currentStage = "complete"
    /\ Len(existingSortedItems) = 3
    /\ Len(mediaItems) = 2
    /\ Cardinality(UniqueNewCandidates) = 2
    /\ comparisonCount >= 4

\* the search window lies within the sorted sequence
WindowInList == 0 <= low /\ low <= high /\ high <= Len(sortedItems)

\* the pivot shown for comparison lies in the window, so sortedItems[pivot] exists
PivotInWindow ==
    CardsShown => /\ low <= comparisonIndex
                  /\ comparisonIndex < high
                  /\ comparisonIndex < Len(sortedItems)

\* a step that applies an answer moves one end of the window to the pivot of
\* the window and candidate it leaves
AnswerAppliedToPivot ==
    comparisonCount' > comparisonCount =>
        /\ currentItem # NullMedia
        /\ currentItem' = currentItem
        /\ sortedItems' = sortedItems
        /\ low < high
        /\ \/ low' = (low + high) \div 2 + 1 /\ high' = high
           \/ high' = (low + high) \div 2 /\ low' = low

\* C21: in every state of a batch sort 0 <= low <= high <= the length of the
\* sorted sequence; whenever a comparison is offered the pivot satisfies
\* low <= pivot < high, so the item shown exists; and every answer is applied
\* to the pivot of the window and the candidate it was given for.
C21_WindowAndPivot ==
    /\ [](WindowInList /\ PivotInWindow)
    /\ [][AnswerAppliedToPivot]_vars

\* a third comparison is offered for one candidate, on a window two answers
\* have narrowed
C21_Witness ==
    /\ CardsShown
    /\ ~isAnimating
    /\ itemComparisons = 2
    /\ high < Len(sortedItems)

\* at most one timer is set, and it holds the pivot still displayed
OneTimerForDisplayedPivot ==
    /\ Len(timers) <= 1
    /\ isAnimating = (timers # <<>>)
    /\ timers # <<>> => /\ CardsShown
                        /\ timers[1].comparisonIndex = comparisonIndex
                        /\ timers[1].card = selectedCardType

\* the counter counts the accepted answers whose timer has run
CounterCountsAnswers == comparisonCount + Len(timers) = answersAccepted

\* while a timer is set no click is accepted, and a step that is not the
\* timer's changes nothing of the sort
ClickDuringAnimationIgnored ==
    timers # <<>> =>
        /\ answersAccepted' = answersAccepted
        /\ Len(timers') <= Len(timers)
        /\ timers' = timers =>
               UNCHANGED <<low, high, comparisonIndex, comparisonCount, currentItem,
                           sortedItems, remainingItems, sortedCount, currentStage,
                           isAnimating, selectedCardType>>

\* the timer's step is the one window update of its answer: the end that the
\* clicked card names moves to the displayed pivot, and the counter goes up by one
TimerUpdatesWindowOnce ==
    Len(timers') < Len(timers) =>
        /\ comparisonCount' = comparisonCount + 1
        /\ selectedCardType = "new" =>
               low' = comparisonIndex + 1 /\ high' = high
        /\ selectedCardType = "existing" =>
               high' = comparisonIndex /\ low' = low

\* the window of a candidate moves at no other step
WindowMovesOnlyByTimer ==
    (currentItem # NullMedia /\ currentItem' = currentItem
        /\ (low' # low \/ high' # high)) => Len(timers') < Len(timers)

WithoutRank(item) == [id |-> item.id, type |-> item.type, rating |-> item.rating]

\* after is before with one item put in at index position, the others in
\* their order and unchanged but for the rank
InsertedAt(before, after, position) ==
    /\ Len(after) = Len(before) + 1
    /\ \A i \in 1..Len(before) :
           WithoutRank(after[IF i <= position THEN i ELSE i + 1]) = WithoutRank(before[i])

\* the comparison effect inserts the candidate
InsertionStep ==
    /\ currentScreen = "batch-sort"
    /\ currentItem # NullMedia
    /\ currentItem' = NullMedia
    /\ currentScreen' = "batch-sort"

\* C24: inserting a new item never changes the relative order of the items
\* already in the sequence, and changes none of their fields but the rank:
\* their ratings and identities stay.
C24_InsertionKeepsOthers ==
    [][InsertionStep =>
          /\ \E position \in 0..Len(sortedItems) :
                 /\ InsertedAt(sortedItems, sortedItems', position)
                 /\ Identity(sortedItems'[position + 1]) = currentItem
          /\ NoDuplicates(sortedItems) => NoDuplicates(sortedItems')]_vars

\* a candidate has just been inserted between two rated items
C24_Witness ==
    /\ currentScreen = "batch-sort"
    /\ currentStage = "sorting"
    /\ currentItem = NullMedia
    /\ sortedCount >= 1
    /\ Len(sortedItems) = 3
    /\ sortedItems[1].rating # NoRating
    /\ sortedItems[2].rating = NoRating
    /\ sortedItems[3].rating # NoRating

\* the candidate is inserted at index low: it is there, and the items before
\* and after it are those that were before and after that index
InsertedAtLow ==
    /\ Len(sortedItems') = Len(sortedItems) + 1
    /\ Identity(sortedItems'[low + 1]) = currentItem
    /\ \A i \in 1..low : Identity(sortedItems'[i]) = Identity(sortedItems[i])
    /\ \A i \in (low + 1)..Len(sortedItems) :
           Identity(sortedItems'[i + 1]) = Identity(sortedItems[i])
    /\ currentItem' = NullMedia

\* C20: the window of a candidate starts at low = 0, high = N; while low < high
\* the pivot offered is floor((low + high) / 2); "prefer new item" sets low to
\* pivot + 1 and leaves high, "prefer existing" sets high to pivot and leaves
\* low; once low >= high the candidate is inserted at index low and no further
\* comparison is offered for it.
C20_WindowProtocol ==
    [][/\ (PickNextEffect /\ currentItem' # NullMedia)
           => (low' = 0 /\ high' = Len(sortedItems))
       /\ ComparisonOffered
           => (low < high /\ comparisonIndex = (low + high) \div 2)
       /\ handleBetter => (low' = comparisonIndex + 1 /\ high' = high)
       /\ handleWorse => (high' = comparisonIndex /\ low' = low)
       /\ (ComparisonEffect /\ low < high)
           => (comparisonIndex' = (low + high) \div 2 /\ UNCHANGED <<low, high>>)
       /\ (ComparisonEffect /\ low >= high) => InsertedAtLow
       /\ (currentItem # NullMedia /\ low >= high)
           => (~ComparisonOffered /\ (ComparisonEffect \/ handleCancel))]_vars

\* a candidate answered once each way, its window closed strictly inside the
\* sequence, about to be inserted
C20_Witness ==
    /\ currentStage = "sorting"
    /\ currentItem # NullMedia
    /\ 0 < low
    /\ low >= high
    /\ high < Len(sortedItems)
    /\ itemComparisons = 2

\* a candidate of the batch whose identity is already in the list
DuplicateGiven ==
    \E i \in 1..Len(mediaItems) : isMediaDuplicate(mediaItems[i], existingSortedItems)

\* C10 as stated: a candidate whose identity is already present puts the sorter
\* in an error state and is not silently dropped.
C10_DuplicateFailsFast ==
    (currentStage # "initial" /\ DuplicateGiven) => currentStage = "error"

\* C10 as amended: a candidate whose identity is already present raises no
\* error; it is silently dropped: never offered for comparison, never inserted;
\* a batch of such candidates alone leaves the sequence unchanged.
C10_DuplicateSilentlyDropped ==
    /\ currentStage \in {"initial", "sorting", "complete"}
    /\ currentStage # "initial" =>
           \A i \in 1..Len(mediaItems) :
               isMediaDuplicate(mediaItems[i], existingSortedItems) =>
                   /\ ~isMediaDuplicate(mediaItems[i], Pending)
                   /\ Cardinality({k \in 1..Len(sortedItems) :
                          Identity(sortedItems[k]) = mediaItems[i]}) = 1
    /\ (/\ currentStage # "initial"
        /\ \A i \in 1..Len(mediaItems) :
               isMediaDuplicate(mediaItems[i], existingSortedItems))
       => (sortedItems = existingSortedItems /\ comparisonCount = 0)

\* a batch of two candidates that are both in the list already has completed
C10_Witness ==
    /\ currentStage = "complete"
    /\ Len(mediaItems) = 2
    /\ mediaItems[1] # mediaItems[2]
    /\ \A i \in 1..2 : isMediaDuplicate(mediaItems[i], existingSortedItems)

(***************************************************************************)
(* Properties of the ranks.                                                *)
(***************************************************************************)
\* the item at array index i holds rank N-1-i: the ranks are a permutation of
\* 0..N-1 that falls along the array
RanksDense(list) ==
    \A i \in 1..Len(list) : list[i].rank = Len(list) - 1 - (i - 1)

\* C2: after every structural change the item at array index i holds rank
\* N-1-i: in the sequence being sorted once insertMediaItem has placed an
\* item, and in the list as committed by the sorter, by a drop-reorder in the
\* list view and by Save Ratings.
C2_RanksByPosition ==
    /\ RanksDense(listSortedItems)
    /\ (currentScreen = "batch-sort" /\ currentStage # "initial")
           => RanksDense(sortedItems)

\* a list of three that was rated and saved, then got a third item through
\* the sorter, which was then moved by a drop
C2_Witness ==
    /\ currentScreen = "list"
    /\ lastChange = "drop"
    /\ Len(listSortedItems) = 3
    /\ \E i \in 1..3 : listSortedItems[i].rating # NoRating
    /\ \E i \in 1..3 : listSortedItems[i].rating = NoRating

\* the rating screen shows the ratings distributed over a list that was
\* never rated and that answers agreeing with the oracle put in order
DistributedOverSortedList ==
    /\ currentScreen = "rate"
    /\ rateInitialized
    /\ eventsUsed = {}
    /\ listConsistent
    /\ \A i \in 1..Len(listSortedItems) : listSortedItems[i].rating = NoRating

ReturnedRatings == bcReturned /\ Len(bcItems) >= 2

\* the output is ordered by descending rank
OutputByDescendingRank ==
    \A i \in 1..Len(bcResult) - 1 : bcResult[i].rank > bcResult[i + 1].rank

C7_RatingsWithinBounds ==
    (ReturnedRatings /\ bcMinRating = Scale \div 2 /\ bcMaxRating = 5 * Scale) =>
        \A i \in 1..Len(bcResult) :
            /\ bcResult[i].rating # NaN
            /\ bcResult[i].rating >= Scale \div 2
            /\ bcResult[i].rating <= 5 * Scale

\* a mean of 9.0 with a stdDev of 2.0: the inner items are clamped down to 5.0
C7_Witness ==
    /\ ReturnedRatings
    /\ bcMinRating = Scale \div 2
    /\ bcMean = 9 * Scale
    /\ bcStdDev = 2 * Scale
    /\ Len(bcItems) = 4
    /\ bcResult[2].rating = 5 * Scale

\* Scenario A: four items ranked 3, 2, 1, 0 with mean 3.0 and stdDev 1.0
ScenarioA ==
    /\ bcReturned
    /\ bcItems = BellList(4, TRUE)
    /\ bcMean = 3 * Scale
    /\ bcStdDev = Scale

\* the item of the output that has the given rank
OutputOfRank(rank) == bcResult[CHOOSE i \in 1..Len(bcResult) : bcResult[i].rank = rank]

BellCallStep == bcCalls' = bcCalls + 1

C9_FailsFastBelowTwo ==
    (bcReturned /\ Len(bcItems) < 2) =>
        /\ bcThrew
        /\ \A i \in 1..Len(bcResult) : bcResult[i].rating = NoRating

(***************************************************************************)
(* Properties of the rating screen.                                        *)
(***************************************************************************)
\* the ratings of the screen were produced by applyBellCurve: the rankedList
\* had no rating
RatedByDistribute ==
    /\ currentScreen = "rate"
    /\ rateInitialized
    /\ \A i \in 1..Len(listSortedItems) : listSortedItems[i].rating = NoRating

\* only the events of the given kinds were handled since the ratings were set
OnlyEvents(kinds) == eventsUsed \subseteq kinds

\* the ratings never decrease, or never increase, along the array
MonotoneRatings(list) ==
    \/ \A i \in 1..Len(list) - 1 : list[i].rating <= list[i + 1].rating
    \/ \A i \in 1..Len(list) - 1 : list[i].rating >= list[i + 1].rating

\* C11: after any sequence of point drags on a list rated by applyBellCurve,
\* ties included, the ratings in array order are still monotone: no pair of
\* items has exchanged its order of rating.
C11_PointDragsKeepOrder ==
    (RatedByDistribute /\ OnlyEvents({"point"})) => MonotoneRatings(rateItems)

\* every rating of the screen lies in [MIN_RATING, MAX_RATING]
RatingsInRange(list) ==
    \A i \in 1..Len(list) :
        /\ list[i].rating # NaN
        /\ MIN_RATING <= list[i].rating
        /\ list[i].rating <= MAX_RATING

\* the three gestures of the screen
Gestures == {"point", "adjuster", "card"}

\* C12: after any sequence of point drags, adjuster drags and card drags on
\* a list whose ratings lie in [0.5, 5.0], every rating lies in [0.5, 5.0].
C12_GesturesKeepRange ==
    (currentScreen = "rate" /\ rateInitialized /\ OnlyEvents(Gestures))
        => RatingsInRange(rateItems)

\* the three gestures were used, the last an adjuster drag that rescaled the
\* items below the dragged one
C12_Witness ==
    /\ currentScreen = "rate"
    /\ eventsUsed = Gestures
    /\ dragMoves = MaxDragMoves
    /\ lastEvent = "handleAdjusterDrag:down"
    /\ \E i \in 1..Len(rateItems) : rateItems[i].rating % 10000 # 0

\* C13: when "Save Ratings" commits after any sequence of gestures, the array
\* committed is in the order of its ratings: the ranks, given by position,
\* order no pair of items against their ratings.
C13_SavedInRatingOrder ==
    lastChange = "save" => MonotoneRatings(listSortedItems)

\* C14: an adjuster-drag move that a safety check of adjustProportionally
\* rejects (range under 0.01, or ratio outside the accepted band) changes no
\* rating, the dragged item's included, whether the move is down or up.
C14_RejectedMoveChangesNothing ==
    [][(handleAdjusterDrag
        /\ lastEvent' \in {"handleAdjusterDrag:rejected down",
                           "handleAdjusterDrag:rejected up"})
       => rateItems' = rateItems]_vars

\* the rating that the claimed map gives an item rated r when the dragged item
\* is lowered from r0 to r1 over the fixed minimum
LoweredTo(r, r0, r1, min) == Add(min, Mul(Div(r - min, r0 - min), r1 - min))

\* the mirror image over the fixed maximum
RaisedTo(r, r0, r1, max) == Add(max, Neg(Mul(Div(max - r, max - r0), max - r1)))

\* an accepted lowering of the item at index from r0: the items below r0 are
\* rescaled over the minimum, those above are left alone
LoweredAround(index, r0, min) ==
    \A j \in 1..Len(rateItems) :
        /\ rateItems[j].rating < r0 =>
               rateItems'[j].rating =
                   LoweredTo(rateItems[j].rating, r0, rateItems'[index + 1].rating, min)
        /\ rateItems[j].rating = min /\ min < r0 =>
               rateItems'[j].rating = rateItems[j].rating
        /\ rateItems[j].rating > r0 => rateItems'[j].rating = rateItems[j].rating

\* an accepted raising: the mirror image
RaisedAround(index, r0, max) ==
    \A j \in 1..Len(rateItems) :
        /\ rateItems[j].rating > r0 =>
               rateItems'[j].rating =
                   RaisedTo(rateItems[j].rating, r0, rateItems'[index + 1].rating, max)
        /\ rateItems[j].rating = max /\ max > r0 =>
               rateItems'[j].rating = rateItems[j].rating
        /\ rateItems[j].rating < r0 => rateItems'[j].rating = rateItems[j].rating

\* C15: an accepted adjuster drag that lowers the dragged item from r0 to r1
\* maps each item rated r below r0 to min + ((r - min) / (r0 - min)) (r1 - min),
\* min the lowest rating of the list: the lowest item keeps its rating and
\* the items above r0 are unchanged.  Raising is the mirror image over the
\* highest rating.
C15_ProportionalRescale ==
    [][/\ (handleAdjusterDrag /\ lastEvent' = "handleAdjusterDrag:down")
           => LoweredAround(draggingAdjuster, rateItems[draggingAdjuster + 1].rating,
                            MinOfRatings(rateItems))
       /\ (handleAdjusterDrag /\ lastEvent' = "handleAdjusterDrag:up")
           => RaisedAround(draggingAdjuster, rateItems[draggingAdjuster + 1].rating,
                           MaxOfRatings(rateItems))]_vars

\* the first item of [1.0, 3.99, 4.0] was raised to 1.88 by its adjuster: the
\* second is rescaled to 4 - (0.01 / 3) * 2.12, the highest keeps its rating
C15_Witness ==
    /\ lastEvent = "handleAdjusterDrag:up"
    /\ RatingsOf(listSortedItems) = <<Scale, 3990000, 4 * Scale>>
    /\ RatingsOf(rateItems) = <<1880000, 3992934, 4 * Scale>>

\* the held card is at the first place and the pointer went left by half a
\* card or more, or it is at the last place and the pointer went right
MovedPastEnd ==
    \/ /\ findIndex(rateItems, draggedItemKey) = 0
       /\ lastEvent' = "handleCardDrag:left"
    \/ /\ findIndex(rateItems, draggedItemKey) = Len(rateItems) - 1
       /\ lastEvent' = "handleCardDrag:right"

\* C16: a card-drag move that would take the held card past the first or the
\* last place changes nothing: the items, their ratings and their order stay
\* as they are, whatever the displacement.
C16_PastEndIsNoOp ==
    [][(handleCardDrag /\ MovedPastEnd) => UNCHANGED <<rateItems, cardVars>>]_vars

\* the card at the first place was pulled left by five card widths, no card
\* having been exchanged before
C16_Witness ==
    /\ lastEvent = "handleCardDrag:left"
    /\ dragMoves = 0
    /\ findIndex(rateItems, draggedItemKey) = 0
    /\ dragStartX = 400

\* the gestures that are active
ActiveGestures ==
    {g \in Gestures :
        \/ g = "point" /\ draggingPoint # NullIndex
        \/ g = "adjuster" /\ draggingAdjuster # NullIndex
        \/ g = "card" /\ draggedItemKey # NullMedia}

\* C17: at most one of the three gestures is active: draggingPoint,
\* draggingAdjuster and draggedItemKey are never non-null together, a begin
\* event during a gesture starting no second one.
C17_AtMostOneGesture == Cardinality(ActiveGestures) <= 1

\* a step of handlePointDrag that set the items
PointMoved ==
    /\ draggingPoint # NullIndex
    /\ lastEvent' = "handlePointDrag:moved"
    /\ rateItems' # rateItems

\* the ratings of the items other than the one at index (0-based)
OtherRatings(list, index) ==
    {RatingOrDefault(list[j]) : j \in (1..Len(list)) \ {index + 1}}

\* rating lies strictly between the nearest ratings of the other items below
\* and above the place the item had
StrictlyBetweenNeighbors(list, index, rating) ==
    \A other \in OtherRatings(list, index) :
        /\ other <= RatingOrDefault(list[index + 1]) => other < rating
        /\ other >= RatingOrDefault(list[index + 1]) => rating < other

\* C27: after a point-drag move that changes a rating, the new rating of the
\* dragged item lies strictly between the ratings of its immediate lower and
\* upper neighbours in rating order: it never equals and never crosses one.
C27_StrictlyBetweenNeighbors ==
    [][PointMoved =>
          StrictlyBetweenNeighbors(rateItems, draggingPoint,
                                   rateItems'[draggingPoint + 1].rating)]_vars

\* after differs from before at most in the rating of the item at index
OnlyRatingAt(before, after, index) ==
    /\ Len(after) = Len(before)
    /\ \A i \in 1..Len(before) :
           IF i = index + 1
           THEN [after[i] EXCEPT !.rating = before[i].rating] = before[i]
           ELSE after[i] = before[i]

\* C28: a point-drag move changes at most the rating of the dragged item:
\* the rating of every other item, and the rank, identity and array position
\* of every item, are unchanged.
C28_PointDragChangesOneRating ==
    [][PointMoved => OnlyRatingAt(rateItems, rateItems', draggingPoint)]_vars

\* the second move of a point of a list of three has set the items
C28_Witness ==
    /\ lastEvent = "handlePointDrag:moved"
    /\ draggingPoint # NullIndex
    /\ dragMoves = 2
    /\ Len(rateItems) = 3
    /\ \E i \in 1..3 : rateItems[i].rating # rateItems[draggingPoint + 1].rating

\* a mouse move over the cards while a card is held
CardDragStep ==
    /\ PointerIn("cards")
    /\ pointerOver' = "cards"
    /\ draggedItemKey # NullMedia
    /\ draggedItemKey' = draggedItemKey
    /\ lastEvent' \in {"handleCardDrag:short", "handleCardDrag:left",
                       "handleCardDrag:right"}

\* the place (0-based) of the card held
HeldIndex == findIndex(rateItems, draggedItemKey)

\* the place next to the card held, on the side the pointer moved to
TowardsIndex == IF lastEvent' = "handleCardDrag:right" THEN HeldIndex + 1 ELSE HeldIndex - 1

\* the card held and its neighbour changed places, each taking the rating
\* the other had
ExchangedWith(held, neighbour) ==
    /\ Identity(rateItems'[neighbour + 1]) = draggedItemKey
    /\ rateItems'[neighbour + 1].rating = rateItems[neighbour + 1].rating
    /\ Identity(rateItems'[held + 1]) = Identity(rateItems[neighbour + 1])
    /\ rateItems'[held + 1].rating = rateItems[held + 1].rating

\* the drag-start reference is the position of the pointer
ReferenceAtPointer ==
    \E clientX \in PointerXs :
        /\ CardDragInput(clientX) = lastEvent'
        /\ dragStartX' = clientX

\* C29: during a card-drag, once the pointer has moved from the drag-start
\* reference by more than half the nominal card width, the dragged item and
\* the item next to it on the side of the motion exchange ratings (the
\* dragged item then carries the neighbour's former rating and the neighbour
\* the dragged item's) and the reference is reset to the pointer's position,
\* so that successive crossings move the item step by step; a smaller
\* displacement changes nothing.
C29_CardDragSwapsStepwise ==
    [][CardDragStep =>
          IF lastEvent' = "handleCardDrag:short"
          THEN UNCHANGED <<rateItems, dragStartX>>
          ELSE (HeldIndex >= 0 /\ TowardsIndex >= 0 /\ TowardsIndex < Len(rateItems))
                   => /\ ExchangedWith(HeldIndex, TowardsIndex)
                      /\ ReferenceAtPointer]_vars

\* two crossings to the right took the first card of three to the last place
C29_Witness ==
    /\ lastEvent = "handleCardDrag:right"
    /\ draggedItemKey # NullMedia
    /\ dragMoves = 2
    /\ Len(rateItems) = 3
    /\ Identity(rateItems[3]) = draggedItemKey
    /\ rateItems[3].rank = 2
    /\ rateItems[3].rating # NoRating

\* a mouse move over the cards that exchanged two cards
CardSwapStep == CardDragStep /\ rateItems' # rateItems

\* the ratings as stored, by array position
StoredRatings(list) == [i \in 1..Len(list) |-> list[i].rating]

\* the ratings as a bag
RatingBag(list) ==
    [rating \in Range(StoredRatings(list)) |->
        Cardinality({i \in 1..Len(list) : list[i].rating = rating})]

\* the two places at which the lists differ hold each other's identities;
\* every other place holds the same item
TwoIdentitiesExchanged(before, after) ==
    \E a, b \in 1..Len(before) :
        /\ a # b
        /\ Identity(after[a]) = Identity(before[b])
        /\ Identity(after[b]) = Identity(before[a])
        /\ \A i \in (1..Len(before)) \ {a, b} : after[i] = before[i]

\* C30: a card-drag swap leaves the sequence of ratings read by array
\* position unchanged (only two identities exchange array positions), leaves
\* every other item untouched, and keeps the multiset of ratings and the set
\* of identities; an array that was sorted by rating before the swap is
\* sorted by rating after it.
C30_SwapKeepsRatingsByPosition ==
    [][CardSwapStep =>
          /\ StoredRatings(rateItems') = StoredRatings(rateItems)
          /\ TwoIdentitiesExchanged(rateItems, rateItems')
          /\ RatingBag(rateItems') = RatingBag(rateItems)
          /\ Identities(rateItems') = Identities(rateItems)
          /\ MonotoneRatings(rateItems) => MonotoneRatings(rateItems')]_vars

\* one swap exchanged the first two cards of a list whose ratings differ
C30_Witness ==
    /\ lastEvent \in {"handleCardDrag:left", "handleCardDrag:right"}
    /\ draggedItemKey # NullMedia
    /\ dragMoves = 1
    /\ OnlyEvents({"card"})
    /\ rateItems[1].rank < rateItems[2].rank
    /\ rateItems[1].rating # NoRating
    /\ rateItems[1].rating < rateItems[2].rating

\* a step of the rating screen between the initialization of the ratings
\* and the commit: a gesture event
GestureEventStep ==
    /\ currentScreen = "rate" /\ currentScreen' = "rate"
    /\ rateInitialized /\ rateInitialized'
    /\ lastEvent' # "initialize"

\* the identity and rank of every item, whatever its place
RankedIdentities(list) ==
    {[id |-> list[i].id, type |-> list[i].type, rank |-> list[i].rank] : i \in 1..Len(list)}

\* C31: no point-drag, adjuster-drag or card-drag event changes the rank or
\* the identity of an item or adds or removes an item: the ranks change only
\* when Save Ratings commits.
C31_GesturesKeepRankAndIdentity ==
    [][GestureEventStep =>
          /\ Len(rateItems') = Len(rateItems)
          /\ RankedIdentities(rateItems') = RankedIdentities(rateItems)
          /\ Cardinality(RankedIdentities(rateItems')) = Len(rateItems')
          /\ listSortedItems' = listSortedItems]_vars

\* a point, an adjuster and a card have been dragged, and two moves set the items
C31_Witness ==
    /\ {"point", "adjuster", "card"} \subseteq eventsUsed
    /\ dragMoves = 2
    /\ Len(rateItems) = 3
    /\ lastEvent \in {"handleCardDrag:left", "handleCardDrag:right"}
    /\ rateItems[1].rank < rateItems[2].rank

\* a mouse move was delivered where no gesture was active
IdleMoveStep == lastEvent' = "mouseMove:idle" /\ lastEvent # "mouseMove:idle"

\* C32: a move event delivered for a gesture that is not active (its
\* dragging index or key is null) leaves the items, the viewport and all
\* gesture state unchanged.
C32_InactiveMoveIsNoOp ==
    [][IdleMoveStep =>
          /\ rateItems' = rateItems
          /\ UNCHANGED <<visibleMinRating, visibleMaxRating, isZoomed>>
          /\ UNCHANGED <<draggingPoint, dragOffsetX, draggingAdjuster,
                         adjusterOffsetX, originalAdjusterRating>>
          /\ UNCHANGED <<draggedItemKey, dragStartX>>]_vars

\* a move came over the cards with no card held, after a drag that ended
\* away from where it started
C32_Witness ==
    /\ lastEvent = "mouseMove:idle"
    /\ pointerOver = "cards"
    /\ draggedItemKey = NullMedia
    /\ "card" \in eventsUsed
    /\ dragMoves >= 1
    /\ dragStartX # 0

\* a mouse up or a mouse leave ended a gesture
GestureEndStep ==
    /\ currentScreen = "rate" /\ currentScreen' = "rate"
    /\ lastEvent' \in {"handlePointDragEnd", "handleAdjusterDragEnd", "handleCardDragEnd"}
    /\ \/ draggingPoint # NullIndex /\ draggingPoint' = NullIndex
       \/ draggingAdjuster # NullIndex /\ draggingAdjuster' = NullIndex
       \/ draggedItemKey # NullMedia /\ draggedItemKey' = NullMedia

\* no gesture is active and the offsets are cleared
GesturesIdle ==
    /\ draggingPoint = NullIndex
    /\ draggingAdjuster = NullIndex
    /\ draggedItemKey = NullMedia
    /\ dragOffsetX = 0
    /\ adjusterOffsetX = 0
    /\ originalAdjusterRating = NoRating

\* C33: the release of the pointer and the pointer leaving the surface end an
\* active gesture in the same way: after either event the gesture state is
\* idle (no dragging index or key is set, the offsets are cleared), and the
\* end event changes no rating.
C33_EndEventsLeaveIdle ==
    [][GestureEndStep => GesturesIdle' /\ rateItems' = rateItems]_vars

(***************************************************************************)
(* Properties of the initialization of the ratings.                        *)
(***************************************************************************)
\* the places of the rankedList that held a rating
RatedPlaces == {i \in 1..Len(listSortedItems) : listSortedItems[i].rating # NoRating}

\* the rankedList had its first item, or its last, unrated and every other
\* item rated
OnlyExtremeUnrated(place) ==
    /\ currentScreen = "rate"
    /\ lastEvent = "initialize"
    /\ place \in {1, Len(listSortedItems)}
    /\ RatedPlaces = (1..Len(listSortedItems)) \ {place}

\* C18: every rating set when an unrated item is placed at an end of a rated
\* list, the rescaled ratings and the new item's, has two decimals and lies in
\* [0.5, 5.0], for lists rated within 0.1 of a bound too.
C18_PlacedRatingsInRange ==
    (\E place \in 1..Len(listSortedItems) : OnlyExtremeUnrated(place)) =>
        /\ RatingsInRange(rateItems)
        /\ \A i \in 1..Len(rateItems) : rateItems[i].rating % 10000 = 0

\* the rating at place is strictly beyond the ratings at all other places, on
\* one side of them all
StrictlyPastAll(list, place) ==
    \/ \A j \in (1..Len(list)) \ {place} : list[place].rating < list[j].rating
    \/ \A j \in (1..Len(list)) \ {place} : list[place].rating > list[j].rating

\* no two of the items rated before have exchanged their order of rating
RatedOrderKept ==
    \A j, k \in RatedPlaces :
        listSortedItems[j].rating < listSortedItems[k].rating
            => rateItems[j].rating <= rateItems[k].rating

\* C19: an unrated item beyond all the rated items on one side is given a
\* rating strictly past the rating of every item rated before, and those keep
\* their relative order, for one rated item or more.
C19_NewItemStrictlyPast ==
    \A place \in 1..Len(listSortedItems) :
        OnlyExtremeUnrated(place) =>
            StrictlyPastAll(rateItems, place) /\ RatedOrderKept

\* the places of the rankedList that held no rating
UnratedPlaces == (1..Len(listSortedItems)) \ RatedPlaces

\* the effect has set the ratings of a rankedList
RatingsPlaced == currentScreen = "rate" /\ rateInitialized /\ lastEvent = "initialize"

\* the place is unrated and has a rated place on both sides
InteriorPlace(i) ==
    /\ i \in UnratedPlaces
    /\ \E j \in RatedPlaces : j < i
    /\ \E k \in RatedPlaces : k > i

\* the nearest rated place before i, and after i
RatedBefore(i) == CHOOSE j \in RatedPlaces : j < i /\ \A k \in RatedPlaces : k < i => k <= j

RatedAfter(i) == CHOOSE j \in RatedPlaces : j > i /\ \A k \in RatedPlaces : k > i => k >= j

\* the rating was rounded to two decimals from the mean of the ratings a, b
RoundedMeanOf(rating, a, b) ==
    /\ rating % 10000 = 0
    /\ Abs(2 * rating - (a + b)) <= 10000

\* the items of the rankedList that held a rating
RatedItemsOfList == SelectSeq(listSortedItems, LAMBDA item : item.rating # NoRating)

\* processedItems when the forEach reaches the unrated item at place i
ProcessedBefore(i) ==
    InterpolateUnrated(listSortedItems,
                       SelectSeq(SubSeq(listSortedItems, 1, i - 1),
                                 LAMBDA item : item.rating = NoRating),
                       RatedItemsOfList)

\* the pass of the forEach for the item at place i pushes the item with the
\* mean of its rated neighbours and leaves every item of processedItems
PlacedAtMean(i) ==
    /\ Len(InterpolateAt(listSortedItems, i - 1, listSortedItems[i], ProcessedBefore(i)))
           = Len(ProcessedBefore(i)) + 1
    /\ SubSeq(InterpolateAt(listSortedItems, i - 1, listSortedItems[i], ProcessedBefore(i)),
              1, Len(ProcessedBefore(i))) = ProcessedBefore(i)
    /\ RoundedMeanOf(InterpolateAt(listSortedItems, i - 1, listSortedItems[i],
                                   ProcessedBefore(i))[Len(ProcessedBefore(i)) + 1].rating,
                     listSortedItems[RatedBefore(i)].rating,
                     listSortedItems[RatedAfter(i)].rating)

NeverDecreasing(list) ==
    \A i \in 1..Len(list) - 1 : list[i].rating <= list[i + 1].rating

\* two of the items rated before differ in rating: the direction is fixed
DirectionFixed ==
    \E j, k \in RatedPlaces : listSortedItems[j].rating # listSortedItems[k].rating

\* C35: if the ratings of the items rated before are monotone in the order of
\* rank, then after the initialization with any number of unrated items at
\* any places the ratings of all items are monotone in the order of rank, in
\* the same direction.
C35_InitializationKeepsMonotone ==
    (RatingsPlaced /\ RatedPlaces # {} /\ UnratedPlaces # {}) =>
        /\ MonotoneRatings(rateItems)
        /\ DirectionFixed => NeverDecreasing(rateItems)

(***************************************************************************)
(* Properties of the controls of the rating screen.                        *)
(***************************************************************************)
\* "Reset to Curve" was used on the ratings of the screen
ResetStep ==
    /\ currentScreen = "rate" /\ currentScreen' = "rate"
    /\ rateInitialized
    /\ lastEvent' = "handleResetRatings"
    /\ rateItems' # rateItems

\* C38: "Reset to Curve" derives the ratings from the current order of the
\* array: the order of the items that earlier card drags have set is the same
\* before and after the reset, and only ratings change.
C38_ResetKeepsArrayOrder ==
    [][ResetStep => IdentitiesInOrder(rateItems') = IdentitiesInOrder(rateItems)]_vars

(***************************************************************************)
(* Properties of the visible range of the curve.                           *)
(***************************************************************************)
\* "Zoom to Points" was used on a list of at least 2 items
ZoomStep ==
    /\ currentScreen = "rate" /\ currentScreen' = "rate"
    /\ rateInitialized
    /\ pointerOver = "page" /\ pointerOver' = "page"
    /\ lastEvent' = "calculateVisibleRange"
    /\ Len(rateItems) >= 2

\* the ratings of the screen
ShownRatings == {rateItems[i].rating : i \in 1..Len(rateItems)}

\* the least and the greatest of the ratings
LeastRating == CHOOSE r \in ShownRatings : \A other \in ShownRatings : r <= other

GreatestRating == CHOOSE r \in ShownRatings : \A other \in ShownRatings : r >= other

\* the data range padded by a tenth of its span on each side, kept within
\* [0.5, 5.0]
PaddedLow == Max2(MIN_RATING, LeastRating - (GreatestRating - LeastRating) \div 10)

PaddedHigh == Min2(MAX_RATING, GreatestRating + (GreatestRating - LeastRating) \div 10)

\* the padded range is narrower than 70% of [0.5, 5.0]
PaddedRangeNarrow == 10 * (PaddedHigh - PaddedLow) < 7 * (MAX_RATING - MIN_RATING)

\* C36: "Zoom to Points" on a list of at least 2 items takes the least and
\* the greatest rating, pads each side by 10% of their span, clamps to
\* [0.5, 5.0], and sets the visible range to the padded range with zoomed
\* true exactly when the padded span is narrower than 70% of the whole
\* range; otherwise it sets the visible range to [0.5, 5.0] with zoomed
\* false.  It changes no item.
C36_ZoomToPoints ==
    [][ZoomStep =>
          /\ rateItems' = rateItems
          /\ isZoomed' = PaddedRangeNarrow
          /\ visibleMinRating' = IF PaddedRangeNarrow THEN PaddedLow ELSE MIN_RATING
          /\ visibleMaxRating' = IF PaddedRangeNarrow THEN PaddedHigh ELSE MAX_RATING]_vars

\* zoomed onto a padded range strictly inside [0.5, 5.0]
C36_Witness ==
    /\ currentScreen = "rate"
    /\ lastEvent = "calculateVisibleRange"
    /\ isZoomed
    /\ MIN_RATING < visibleMinRating
    /\ visibleMinRating < visibleMaxRating
    /\ visibleMaxRating < MAX_RATING

\* C37: in every reachable state the visible range satisfies
\* 0.5 <= visibleMin < visibleMax <= 5.0, so ratingToX and xToRating never
\* divide by a range of width zero.
C37_VisibleRangeNotEmpty ==
    /\ MIN_RATING <= visibleMinRating
    /\ visibleMinRating < visibleMaxRating
    /\ visibleMaxRating <= MAX_RATING

=============================================================================
